---- MODULE Spec2Model ----
(***************************************************************************)
(* Personal finance tracker: the DataProvider (Firestore listeners and     *)
(* single-document writes), the pages that call it, and the two Gemini     *)
(* utilities (receipt extraction, insight generation).                     *)
(*                                                                         *)
(* Documents carry the fields of the form data; the optional notes and     *)
(* receiptUrl and the createdAt stamp, which no operation reads, are left  *)
(* out of the records.  Dates are day numbers.                             *)
(***************************************************************************)
EXTENDS Integers, Sequences, FiniteSets, TLC

\* ---------------------------------------------------------------- bounds
MaxIds == 2          \* document ids available per collection
MaxPending == 2      \* undelivered snapshots queued per listener
MaxWrites == 2       \* DataProvider write calls made in one behaviour
MaxText == 3         \* tokens in a reply of the model
MaxDay == 2          \* the clock runs over days 1..MaxDay
MaxTx == 2           \* transactions handed to the insight generator
MaxSubmits == 2      \* write calls the form pages make in one behaviour
MaxSaves == 1        \* transactions the upload page saves in one behaviour
MonthLen == 3        \* instants told apart in a calendar month
MaxFallbackTx == 5   \* transactions handed to the fallback insights
MaxRequests == 3     \* insight requests the Analysis page starts in one behaviour

\* ---------------------------------------------------------------- values
NoUser == "none"
NotMounted == "notMounted"
Users == {"u1", "u2"}
Collections == {"accounts", "transactions", "investments"}
Ids == 1 .. MaxIds
TxTypes == {"income", "expense"}

\* the form data the write calls are tried with (dates are day numbers)
AccountInputs ==
  {[name |-> "Wallet", type |-> "Cash", balance |-> 0],
   [name |-> "Bank", type |-> "Savings Account", balance |-> 5]}
TransactionInputs ==
  {[accountId |-> 1, type |-> "income", amount |-> 2, category |-> "Salary",
    description |-> "pay", date |-> 1],
   [accountId |-> 2, type |-> "expense", amount |-> 3, category |-> "Shopping",
    description |-> "shoes", date |-> 2]}
InvestmentInputs ==
  {[name |-> "ACME", type |-> "stock", quantity |-> 1, buyPrice |-> 1,
    currentPrice |-> 1]}

Inputs(c) ==
  CASE c = "accounts" -> AccountInputs
    [] c = "transactions" -> TransactionInputs
    [] c = "investments" -> InvestmentInputs

Range(list) == {list[i] : i \in 1 .. Len(list)}

Singular(c) ==
  CASE c = "accounts" -> "account"
    [] c = "transactions" -> "transaction"
    [] c = "investments" -> "investment"

VARIABLES
  user,          \* useAuth().user as the DataProvider last rendered it
  subUser,       \* the user the effect last ran for (its listeners' uid)
  db,            \* Firestore: collection -> set of documents
  usedIds,       \* collection -> ids addDoc has handed out
  pending,       \* collection -> snapshots queued for the listener
  accounts, transactions, investments,   \* DataProvider state lists
  loading,       \* DataProvider loading flag
  call,          \* the DataProvider write call the step just taken made
  writes,        \* write calls made so far
  now,           \* the day new Date() falls on
  rx,            \* the extractReceiptData call: inputs, position, result
  fallbacks,     \* the placeholder records extractReceiptData has returned
  gi,            \* the generateFinancialInsights call: inputs, position, result
  page,          \* the page the router has mounted
  form,          \* the mounted page's form: shown, record edited, field values
  upload,        \* the Upload Bill page's state; its scan field records
                 \* whether the last extraction's model call gave a record
  shown,         \* the toasts the page handler of the step just taken showed
  report,        \* the Reports page: period, report data, trend, export
  portfolio,     \* the Investments page's portfolio summary
  analysis       \* the Analysis page: insights, loadingInsights, the
                 \* generateFinancialInsights requests in flight

dataVars == <<user, subUser, db, usedIds, pending, accounts, transactions,
              investments, loading, call, shown, writes>>
aiVars == <<now, rx, fallbacks, gi>>
pageVars == <<page, form, upload>>
viewVars == <<report, portfolio, analysis>>
elsewhere == <<aiVars, pageVars, viewVars>>
vars == <<dataVars, aiVars, pageVars, viewVars>>

\* ------------------------------------------------------------- Firestore
RECURSIVE OrderById(_)
OrderById(S) ==
  IF S = {} THEN <<>>
  ELSE LET first == CHOOSE d \in S : \A e \in S : d.id <= e.id
       IN <<first>> \o OrderById(S \ {first})

RECURSIVE OrderByDateDesc(_)
OrderByDateDesc(S) ==
  IF S = {} THEN <<>>
  ELSE LET first == CHOOSE d \in S : \A e \in S :
                      \/ d.date > e.date
                      \/ d.date = e.date /\ d.id >= e.id
       IN <<first>> \o OrderByDateDesc(S \ {first})

\* query(collection(db, c), where('userId', '==', uid) [, orderBy('date', 'desc')])
Query(store, c, uid) ==
  LET own == {d \in store[c] : d.userId = uid}
  IN IF c = "transactions" THEN OrderByDateDesc(own) ELSE OrderById(own)

\* snapshot.docs.map(doc => ({ id: doc.id, ...doc.data() }))
MapDocs(snapshot) == [i \in 1 .. Len(snapshot) |-> snapshot[i]]

Merge(d, updates) ==
  [f \in DOMAIN d |-> IF f \in DOMAIN updates THEN updates[f] ELSE d[f]]

NewDoc(id, uid, data) ==
  [f \in DOMAIN data \cup {"id", "userId"} |->
     IF f = "id" THEN id ELSE IF f = "userId" THEN uid ELSE data[f]]

AddDoc(store, c, id, uid, data) ==
  [store EXCEPT ![c] = @ \cup {NewDoc(id, uid, data)}]

UpdateDoc(store, c, id, updates) ==
  [store EXCEPT ![c] = {IF d.id = id THEN Merge(d, updates) ELSE d : d \in @}]

DeleteDoc(store, c, id) ==
  [store EXCEPT ![c] = {d \in @ : d.id # id}]

Exists(store, c, id) == \E d \in store[c] : d.id = id

\* the listeners registered for subUser are told of every change of their
\* query's result, in order
Notify(store) ==
  [c \in Collections |->
     IF subUser \in Users /\ Query(store, c, subUser) # Query(db, c, subUser)
     THEN Append(pending[c], Query(store, c, subUser))
     ELSE pending[c]]

Room ==
  /\ writes < MaxWrites
  /\ \A c \in Collections : Len(pending[c]) < MaxPending

\* by: the caller; sdk: the SDK calls issued; failed: the SDK call rejected;
\* toasts: the toasts the provider showed; threw: the call rejected
NoCall == [by |-> "none", op |-> "none", coll |-> "none", id |-> 0,
           sdk |-> <<>>, failed |-> FALSE, toasts |-> <<>>, threw |-> FALSE]

\* toast.success('Account added successfully!'), toast.error('Failed to add account'), ...
Toast(kind, op, c) == [kind |-> kind, op |-> op, what |-> Singular(c)]

Sdk(fn, c, id) == [fn |-> fn, coll |-> c, id |-> id]

FreshIds(c) == Ids \ usedIds[c]

\* -------------------------------------------------------- Gemini utilities
\* JSON / JavaScript values: t is the typeof tag, n the number, s the string,
\* a the elements.  A date string 'YYYY-MM-DD' carries its day number in n.
Undefined == [t |-> "undefined", n |-> 0, s |-> "", a |-> <<>>]
Null == [t |-> "null", n |-> 0, s |-> "", a |-> <<>>]
Num(k) == [t |-> "number", n |-> k, s |-> "", a |-> <<>>]
Str(x) == [t |-> "string", n |-> 0, s |-> x, a |-> <<>>]
DateStr(d) == [t |-> "string", n |-> d, s |-> "yyyy-mm-dd", a |-> <<>>]
Arr(x) == [t |-> "array", n |-> 0, s |-> "", a |-> x]

Truthy(j) ==
  \/ j.t = "number" /\ j.n # 0
  \/ j.t = "string" /\ j.s # ""
  \/ j.t = "array"

\* j || d
OrElse(j, d) == IF Truthy(j) THEN j ELSE d

\* A reply text is a run of tokens: the four brackets, "v" for a well-formed
\* run of members or elements (its content is the reply's payload), "t" for
\* other prose and "w" for white space.
Tokens == {"{", "}", "[", "]", "v", "t", "w"}
Texts == UNION {[1 .. k -> Tokens] : k \in 0 .. MaxText}

\* text.trim() === ''
Blank(text) == \A i \in 1 .. Len(text) : text[i] = "w"

\* text.match(/\{[\s\S]*\}/) and text.match(/\[[\s\S]*\]/): from the first
\* opening bracket that has a closing one after it to the last closing one;
\* <<>> stands for no match
Match(text, open, close) ==
  LET opens == {i \in 1 .. Len(text) : text[i] = open}
      closes == {i \in 1 .. Len(text) : text[i] = close}
  IN IF opens = {} \/ closes = {} THEN <<>>
     ELSE LET i == CHOOSE x \in opens : \A y \in opens : x <= y
              j == CHOOSE x \in closes : \A y \in closes : x >= y
          IN IF i < j THEN SubSeq(text, i, j) ELSE <<>>

NoSpace(frag) == SelectSeq(frag, LAMBDA x : x # "w")

Inner(frag) == SubSeq(frag, 2, Len(frag) - 1)

\* JSON.parse accepts the fragment: an object holds members or nothing, an
\* array holds elements, nothing, or one value
RECURSIVE IsJson(_)
IsJson(frag) ==
  /\ Len(frag) >= 2
  /\ \/ /\ frag[1] = "{"
        /\ frag[Len(frag)] = "}"
        /\ Inner(frag) \in {<<>>, <<"v">>}
     \/ /\ frag[1] = "["
        /\ frag[Len(frag)] = "]"
        /\ \/ Inner(frag) \in {<<>>, <<"v">>}
           \/ IsJson(Inner(frag))

EmptyObject ==
  [vendor |-> Undefined, amount |-> Undefined, date |-> Undefined,
   category |-> Undefined, items |-> Undefined]

\* what the members of a receipt reply parse to
ReceiptPayloads ==
  {[vendor |-> Str("Cafe"), amount |-> Num(250), date |-> DateStr(1),
    category |-> Str("groceries"), items |-> Arr(<<"Tea">>)],
   [vendor |-> Str(""), amount |-> Num(0), date |-> Str("soon"),
    category |-> Num(7), items |-> Arr(<<>>)],
   [vendor |-> Null, amount |-> Str("12.50"), date |-> Null,
    category |-> Null, items |-> Null]}

ReadOutcomes == {"loaded", "empty", "error"}
Randoms == {0, 437, 999}      \* Math.random() in thousandths

NoReply == [kind |-> "none", text |-> <<>>]
ReplyShapes ==
  {[kind |-> "throws", text |-> <<>>], [kind |-> "noResponse", text |-> <<>>]}
    \cup [kind : {"text"}, text : Texts]

\* JSON.parse(jsonMatch[0]) of a fragment that is an object
ParseObject(frag, payload) ==
  IF Inner(NoSpace(frag)) = <<"v">> THEN payload ELSE EmptyObject

\* variant: a string amount is converted with Number() instead of dropped
ReceiptTryConverting(read, reply, payload) ==
  LET frag == Match(reply.text, "{", "}")
      data == ParseObject(frag, payload)
  IN IF \/ read # "loaded"
        \/ reply.kind # "text"
        \/ Blank(reply.text)
        \/ frag = <<>>
        \/ ~IsJson(NoSpace(frag))
     THEN [threw |-> TRUE, value |-> EmptyObject]
     ELSE [threw |-> FALSE,
           value |-> [vendor |-> OrElse(data.vendor, Null),
                      amount |-> IF data.amount.t = "number"
                                 THEN data.amount
                                 ELSE IF data.amount = Str("12.50")
                                 THEN Num(12) ELSE Null,
                      date |-> OrElse(data.date, Null),
                      category |-> OrElse(data.category, Str("Others")),
                      items |-> IF data.items.t = "array"
                                THEN data.items ELSE Arr(<<>>)]]

\* the try block of extractReceiptData: threw, or the record it returns
ReceiptTry(read, reply, payload) ==
  LET frag == Match(reply.text, "{", "}")
      data == ParseObject(frag, payload)
  IN IF \/ read # "loaded"
        \/ reply.kind # "text"
        \/ Blank(reply.text)
        \/ frag = <<>>
        \/ ~IsJson(NoSpace(frag))
     THEN [threw |-> TRUE, value |-> EmptyObject]
     ELSE [threw |-> FALSE,
           value |-> [vendor |-> OrElse(data.vendor, Null),
                      amount |-> IF data.amount.t = "number"
                                 THEN data.amount ELSE Null,
                      date |-> OrElse(data.date, Null),
                      category |-> OrElse(data.category, Str("Others")),
                      items |-> IF data.items.t = "array"
                                THEN data.items ELSE Arr(<<>>)]]

\* variant: the placeholder's category is drawn at random as its amount is
PlaceholderRandomCategory(rnd, day) ==
  [vendor |-> Str("Sample Store"), amount |-> Num(rnd + 100),
   date |-> DateStr(day),
   category |-> IF rnd < 500 THEN Str("Shopping") ELSE Str("Others"),
   items |-> Undefined]

\* the catch block's record: Math.floor(Math.random() * 1000) + 100 and
\* new Date().toISOString().split('T')[0]
Placeholder(rnd, day) ==
  [vendor |-> Str("Sample Store"), amount |-> Num(rnd + 100),
   date |-> DateStr(day), category |-> Str("Shopping"), items |-> Undefined]

\* variant: JSON.parse is called outside the try block
extractReceiptDataUnguardedParse(read, reply, payload, rnd, day) ==
  LET try == ReceiptTry(read, reply, payload)
      frag == Match(reply.text, "{", "}")
  IN IF try.threw
     THEN IF read = "loaded" /\ reply.kind = "text" /\ frag # <<>>
               /\ ~Blank(reply.text)
          THEN [settled |-> "rejected", value |-> EmptyObject]
          ELSE [settled |-> "resolved", value |-> Placeholder(rnd, day)]
     ELSE [settled |-> "resolved", value |-> try.value]

extractReceiptData(read, reply, payload, rnd, day) ==
  LET try == ReceiptTry(read, reply, payload)
  IN IF try.threw
     THEN [settled |-> "resolved", value |-> Placeholder(rnd, day)]
     ELSE [settled |-> "resolved", value |-> try.value]

\* the transactions the insight generator is tried with
TxSamples ==
  {[type |-> "income", amount |-> 10, category |-> "Salary"],
   [type |-> "expense", amount |-> 8, category |-> "Food & Dining"],
   [type |-> "expense", amount |-> 3, category |-> "Travel"],
   [type |-> "expense", amount |-> 5, category |-> "Travel"],
   [type |-> "income", amount |-> 5, category |-> "Freelance"]}
TxLists == UNION {[1 .. k -> TxSamples] : k \in 0 .. MaxTx}

RECURSIVE SumOf(_, _)
\* transactions.filter(t => t.type === type).reduce((sum, t) => sum + t.amount, 0)
SumOf(txs, type) ==
  IF txs = <<>> THEN 0
  ELSE (IF Head(txs).type = type THEN Head(txs).amount ELSE 0)
         + SumOf(Tail(txs), type)

RECURSIVE CategoryTotal(_, _)
CategoryTotal(txs, cat) ==
  IF txs = <<>> THEN 0
  ELSE (IF Head(txs).type = "expense" /\ Head(txs).category = cat
        THEN Head(txs).amount ELSE 0) + CategoryTotal(Tail(txs), cat)

RECURSIVE CategoriesOf(_, _)
\* the keys of expenseCategories in insertion order
CategoriesOf(txs, seen) ==
  IF txs = <<>> THEN <<>>
  ELSE LET t == Head(txs) IN
       IF t.type = "expense" /\ t.category \notin seen
       THEN <<t.category>> \o CategoriesOf(Tail(txs), seen \cup {t.category})
       ELSE CategoriesOf(Tail(txs), seen)

\* Object.entries(expenseCategories).sort(([,a], [,b]) => b - a)[0]: the sort
\* is stable, so of the largest totals the first inserted comes first
TopExpenseEntry(txs) ==
  LET cats == CategoriesOf(txs, {})
      best == CHOOSE i \in 1 .. Len(cats) :
                /\ \A j \in 1 .. Len(cats) :
                     CategoryTotal(txs, cats[j]) <= CategoryTotal(txs, cats[i])
                /\ \A j \in 1 .. i - 1 :
                     CategoryTotal(txs, cats[j]) < CategoryTotal(txs, cats[i])
  IN IF cats = <<>> THEN <<>>
     ELSE <<cats[best], CategoryTotal(txs, cats[best])>>

\* x.toFixed(1) of the percentage 100 * num / den, in tenths
Tenths(num, den) == (2000 * num + den) \div (2 * den)

Insight(type, title, message, figures) ==
  [type |-> Str(type), title |-> Str(title), message |-> Str(message),
   recommendation |-> Str("advice"), figures |-> figures]

\* variant: every rate below 10, a negative one too, is a low savings rate
SavingsInsightsNoDeficit(income, expenses) ==
  LET surplus == income - expenses
      above20 == IF income > 0 THEN surplus * 100 > 20 * income ELSE FALSE
      below10 == IF income > 0 THEN surplus * 100 < 10 * income ELSE TRUE
      rate == IF income > 0 THEN Tenths(surplus, income) ELSE 0
  IN IF above20
     THEN <<Insight("positive", "Excellent Savings Rate",
                    "Your savings rate is great", <<rate>>)>>
     ELSE IF below10
     THEN <<Insight("warning", "Low Savings Rate",
                    "Your savings rate is below the recommended 20%", <<rate>>)>>
     ELSE <<>>

\* the savings rate is compared as (income - expenses) * 100 against
\* rate * income, which orders as the quotient does when income > 0
SavingsInsights(income, expenses) ==
  LET surplus == income - expenses
      above20 == IF income > 0 THEN surplus * 100 > 20 * income ELSE FALSE
      below10 == IF income > 0 THEN surplus * 100 < 10 * income ELSE TRUE
      negative == IF income > 0 THEN surplus < 0 ELSE FALSE
      rate == IF income > 0 THEN Tenths(surplus, income) ELSE 0
  IN IF above20
     THEN <<Insight("positive", "Excellent Savings Rate",
                    "Your savings rate is great", <<rate>>)>>
     ELSE IF below10 /\ ~negative
     THEN <<Insight("warning", "Low Savings Rate",
                    "Your savings rate is below the recommended 20%", <<rate>>)>>
     ELSE IF negative
     THEN <<Insight("warning", "Spending More Than Earning",
                    "You're spending more than you earn", <<-surplus>>)>>
     ELSE <<>>

\* variant: the top spending category is not reported
generateFallbackInsightsNoTopCategory(txs) ==
  LET income == SumOf(txs, "income")
      expenses == SumOf(txs, "expense")
  IN IF Len(txs) = 0
     THEN <<Insight("info", "Getting Started",
                    "Start adding transactions", <<>>)>>
     ELSE SavingsInsights(income, expenses)
          \o (IF Len(txs) < 5
              THEN <<Insight("info", "More Data Needed",
                             "Add more transactions", <<>>)>>
              ELSE <<>>)

generateFallbackInsights(txs) ==
  LET income == SumOf(txs, "income")
      expenses == SumOf(txs, "expense")
      top == TopExpenseEntry(txs)
  IN IF Len(txs) = 0
     THEN <<Insight("info", "Getting Started",
                    "Start adding transactions", <<>>)>>
     ELSE SavingsInsights(income, expenses)
          \o (IF top # <<>> /\ expenses > 0
              THEN <<Insight("info", "Top Spending Category", top[1],
                             <<Tenths(top[2], expenses), top[2]>>)>>
              ELSE <<>>)
          \o (IF Len(txs) < 5
              THEN <<Insight("info", "More Data Needed",
                             "Add more transactions", <<>>)>>
              ELSE <<>>)

\* the elements of an insights reply: an object, or null
EmptyElement ==
  [isNull |-> FALSE, type |-> Undefined, title |-> Undefined,
   message |-> Undefined, recommendation |-> Undefined]
NullElement == [EmptyElement EXCEPT !.isNull = TRUE]
SpendingElement ==
  [isNull |-> FALSE, type |-> Str("warning"), title |-> Str("Spending"),
   message |-> Str("You spend a lot"), recommendation |-> Str("Spend less")]
BareElement ==
  [isNull |-> FALSE, type |-> Null, title |-> Str(""),
   message |-> Str("Note"), recommendation |-> Null]

InsightPayloads ==
  {<<SpendingElement, BareElement>>, <<SpendingElement, NullElement>>}

\* JSON.parse(jsonMatch[0]) of a fragment that is an array
ParseArray(frag, payload) ==
  LET inner == Inner(NoSpace(frag))
  IN IF inner = <<>> THEN <<>>
     ELSE IF inner = <<"v">> THEN payload
     ELSE IF inner = <<"{", "v", "}">> /\ ~payload[1].isNull THEN <<payload[1]>>
     ELSE <<EmptyElement>>

\* insights.map(insight => ({ type: insight.type || 'info', ... }))
MapInsight(e) ==
  [type |-> OrElse(e.type, Str("info")),
   title |-> OrElse(e.title, Str("Financial Insight")),
   message |-> OrElse(e.message, Str("No message available")),
   recommendation |-> OrElse(e.recommendation, Undefined),
   figures |-> <<>>]

\* the try block of generateFinancialInsights
InsightsTry(reply, payload) ==
  LET frag == Match(reply.text, "[", "]")
      parsed == ParseArray(frag, payload)
  IN IF \/ reply.kind # "text"
        \/ Blank(reply.text)
        \/ frag = <<>>
        \/ ~IsJson(NoSpace(frag))
        \/ \E i \in 1 .. Len(parsed) : parsed[i].isNull
     THEN [threw |-> TRUE, value |-> <<>>]
     ELSE [threw |-> FALSE,
           value |-> [i \in 1 .. Len(parsed) |-> MapInsight(parsed[i])]]

\* variant: a reply that cannot be parsed yields no insights at all, and a
\* failed call is tried a second time
generateFinancialInsightsNoFallback(txs, reply, payload) ==
  LET try == InsightsTry(reply, payload)
  IN IF try.threw
     THEN IF reply.kind = "text"
          THEN [settled |-> "resolved", value |-> <<>>, calls |-> 1]
          ELSE [settled |-> "resolved", value |-> generateFallbackInsights(txs),
                calls |-> 2]
     ELSE [settled |-> "resolved", value |-> try.value, calls |-> 1]

\* calls counts the generateContent calls made
generateFinancialInsights(txs, reply, payload) ==
  LET try == InsightsTry(reply, payload)
  IN IF try.threw
     THEN [settled |-> "resolved", value |-> generateFallbackInsights(txs),
           calls |-> 1]
     ELSE [settled |-> "resolved", value |-> try.value, calls |-> 1]

\* ------------------------------------------------- DataProvider: listeners
IdleRx ==
  [pc |-> "idle", read |-> "none", reply |-> NoReply, payload |-> EmptyObject,
   result |-> [settled |-> "none", value |-> EmptyObject]]

IdleGi ==
  [pc |-> "idle", transactions |-> <<>>, reply |-> NoReply, payload |-> <<>>,
   result |-> [settled |-> "none", value |-> <<>>, calls |-> 0]]

AiInit ==
  /\ now = 1
  /\ rx = IdleRx
  /\ fallbacks = <<>>
  /\ gi = IdleGi

NoUpload == [selectedFile |-> "none"]

NoReport == [mounted |-> FALSE]
NoPortfolio == [rendered |-> FALSE]
NoAnalysis == [mounted |-> FALSE]

ViewInit ==
  /\ report = NoReport
  /\ portfolio = NoPortfolio
  /\ analysis = NoAnalysis

PageInit ==
  /\ page = "none"
  /\ form = [show |-> FALSE, editing |-> [id |-> 0], fields |-> [none |-> Str("")]]
  /\ upload = NoUpload

Init ==
  /\ AiInit
  /\ PageInit
  /\ ViewInit
  /\ user = NoUser
  /\ subUser = NotMounted
  /\ db = [c \in Collections |-> {}]
  /\ usedIds = [c \in Collections |-> {}]
  /\ pending = [c \in Collections |-> <<>>]
  /\ accounts = <<>>
  /\ transactions = <<>>
  /\ investments = <<>>
  /\ loading = TRUE
  /\ call = NoCall
  /\ shown = <<>>
  /\ writes = 0

\* the auth context hands the provider another user (sign-in, sign-out, or a
\* sign-in as someone else while signed in)
AuthChange ==
  /\ \E u \in (Users \cup {NoUser}) \ {user} : user' = u
  /\ call' = NoCall
  /\ shown' = <<>>
  /\ UNCHANGED elsewhere
  /\ UNCHANGED <<subUser, db, usedIds, pending, accounts, transactions,
                 investments, loading, writes>>

\* variant: the effect returns no cleanup, so the listeners of the previous
\* user are never unsubscribed
RunEffectNoCleanup ==
  /\ subUser # user
  /\ subUser' = user
  /\ IF user = NoUser
     THEN /\ accounts' = <<>>
          /\ transactions' = <<>>
          /\ investments' = <<>>
          /\ loading' = FALSE
          /\ UNCHANGED pending
     ELSE /\ pending' = [c \in Collections |->
                          pending[c] \o <<Query(db, c, user)>>]
          /\ UNCHANGED <<accounts, transactions, investments, loading>>
  /\ call' = NoCall
  /\ shown' = <<>>
  /\ UNCHANGED elsewhere
  /\ UNCHANGED <<user, db, usedIds, writes>>

\* useEffect(..., [user]): the previous run's cleanup unsubscribes, then the
\* body runs for the user now rendered
RunEffect ==
  /\ subUser # user
  /\ subUser' = user
  /\ IF user = NoUser
     THEN /\ accounts' = <<>>
          /\ transactions' = <<>>
          /\ investments' = <<>>
          /\ loading' = FALSE
          /\ pending' = [c \in Collections |-> <<>>]
     ELSE /\ pending' = [c \in Collections |-> <<Query(db, c, user)>>]
          /\ UNCHANGED <<accounts, transactions, investments, loading>>
  /\ call' = NoCall
  /\ shown' = <<>>
  /\ UNCHANGED elsewhere
  /\ UNCHANGED <<user, db, usedIds, writes>>

\* variant: the callback appends the snapshot to the list it already holds
SnapshotAccountsMerging ==
  /\ pending["accounts"] # <<>>
  /\ accounts' = accounts \o MapDocs(Head(pending["accounts"]))
  /\ pending' = [pending EXCEPT !["accounts"] = Tail(@)]
  /\ call' = NoCall
  /\ shown' = <<>>
  /\ UNCHANGED elsewhere
  /\ UNCHANGED <<user, subUser, db, usedIds, transactions, investments,
                 loading, writes>>

SnapshotAccounts ==
  /\ pending["accounts"] # <<>>
  /\ accounts' = MapDocs(Head(pending["accounts"]))
  /\ pending' = [pending EXCEPT !["accounts"] = Tail(@)]
  /\ call' = NoCall
  /\ shown' = <<>>
  /\ UNCHANGED elsewhere
  /\ UNCHANGED <<user, subUser, db, usedIds, transactions, investments,
                 loading, writes>>

SnapshotTransactions ==
  /\ pending["transactions"] # <<>>
  /\ transactions' = MapDocs(Head(pending["transactions"]))
  /\ loading' = FALSE
  /\ pending' = [pending EXCEPT !["transactions"] = Tail(@)]
  /\ call' = NoCall
  /\ shown' = <<>>
  /\ UNCHANGED elsewhere
  /\ UNCHANGED <<user, subUser, db, usedIds, accounts, investments, writes>>

SnapshotInvestments ==
  /\ pending["investments"] # <<>>
  /\ investments' = MapDocs(Head(pending["investments"]))
  /\ pending' = [pending EXCEPT !["investments"] = Tail(@)]
  /\ call' = NoCall
  /\ shown' = <<>>
  /\ UNCHANGED elsewhere
  /\ UNCHANGED <<user, subUser, db, usedIds, accounts, transactions,
                 loading, writes>>

\* ---------------------------------------------------- DataProvider: writes
\* variant: adding a transaction also books its amount on the account
AddOpReconciling(by, c, data, id, ok) ==
  IF user = NoUser
  THEN /\ call' = [NoCall EXCEPT !.by = by, !.op = "add", !.coll = c]
       /\ UNCHANGED <<db, usedIds, pending>>
  ELSE LET added == IF ok THEN AddDoc(db, c, id, user, data) ELSE db
           store ==
             IF ok /\ c = "transactions"
             THEN [added EXCEPT !["accounts"] =
                     {IF a.id = data.accountId
                      THEN [a EXCEPT !.balance =
                              IF data.type = "income" THEN @ + data.amount
                              ELSE @ - data.amount]
                      ELSE a : a \in @}]
             ELSE added IN
       /\ db' = store
       /\ usedIds' = IF ok THEN [usedIds EXCEPT ![c] = @ \cup {id}] ELSE usedIds
       /\ pending' = Notify(store)
       /\ call' = [by |-> by, op |-> "add", coll |-> c,
                   id |-> IF ok THEN id ELSE 0, failed |-> ~ok,
                   sdk |-> <<Sdk("addDoc", c, IF ok THEN id ELSE 0)>>,
                   toasts |-> <<Toast(IF ok THEN "success" ELSE "error", "add", c)>>,
                   threw |-> ~ok]

\* variant: an add with no user signed in is reported as a failure
AddOpSignedOutFails(by, c, data, id, ok) ==
  IF user = NoUser
  THEN /\ call' = [NoCall EXCEPT !.by = by, !.op = "add", !.coll = c,
                                 !.failed = TRUE, !.threw = TRUE,
                                 !.toasts = <<Toast("error", "add", c)>>]
       /\ UNCHANGED <<db, usedIds, pending>>
  ELSE LET store == IF ok THEN AddDoc(db, c, id, user, data) ELSE db IN
       /\ db' = store
       /\ usedIds' = IF ok THEN [usedIds EXCEPT ![c] = @ \cup {id}] ELSE usedIds
       /\ pending' = Notify(store)
       /\ call' = [by |-> by, op |-> "add", coll |-> c,
                   id |-> IF ok THEN id ELSE 0, failed |-> ~ok,
                   sdk |-> <<Sdk("addDoc", c, IF ok THEN id ELSE 0)>>,
                   toasts |-> <<Toast(IF ok THEN "success" ELSE "error", "add", c)>>,
                   threw |-> ~ok]

\* ok is the outcome of the SDK call (network, security rules)
AddOp(by, c, data, id, ok) ==
  IF user = NoUser
  THEN /\ call' = [NoCall EXCEPT !.by = by, !.op = "add", !.coll = c]
       /\ UNCHANGED <<db, usedIds, pending>>
  ELSE LET store == IF ok THEN AddDoc(db, c, id, user, data) ELSE db IN
       /\ db' = store
       /\ usedIds' = IF ok THEN [usedIds EXCEPT ![c] = @ \cup {id}] ELSE usedIds
       /\ pending' = Notify(store)
       /\ call' = [by |-> by, op |-> "add", coll |-> c,
                   id |-> IF ok THEN id ELSE 0, failed |-> ~ok,
                   sdk |-> <<Sdk("addDoc", c, IF ok THEN id ELSE 0)>>,
                   toasts |-> <<Toast(IF ok THEN "success" ELSE "error", "add", c)>>,
                   threw |-> ~ok]

\* variant: a failed update is reported by its toast and not re-thrown
UpdateOpSwallowing(by, c, id, updates, ok) ==
  LET done == ok /\ Exists(db, c, id)
      store == IF done THEN UpdateDoc(db, c, id, updates) ELSE db IN
  /\ db' = store
  /\ pending' = Notify(store)
  /\ call' = [by |-> by, op |-> "update", coll |-> c, id |-> id,
              failed |-> ~done,
              sdk |-> <<Sdk("updateDoc", c, id)>>,
              toasts |-> <<Toast(IF done THEN "success" ELSE "error", "update", c)>>,
              threw |-> FALSE]
  /\ UNCHANGED usedIds

\* updateDoc rejects when the document does not exist
UpdateOp(by, c, id, updates, ok) ==
  LET done == ok /\ Exists(db, c, id)
      store == IF done THEN UpdateDoc(db, c, id, updates) ELSE db IN
  /\ db' = store
  /\ pending' = Notify(store)
  /\ call' = [by |-> by, op |-> "update", coll |-> c, id |-> id,
              failed |-> ~done,
              sdk |-> <<Sdk("updateDoc", c, id)>>,
              toasts |-> <<Toast(IF done THEN "success" ELSE "error", "update", c)>>,
              threw |-> ~done]
  /\ UNCHANGED usedIds

\* variant: deleting an account also deletes the transactions that refer to it
DeleteOpCascading(by, c, id, ok) ==
  LET gone == IF ok THEN DeleteDoc(db, c, id) ELSE db
      store == IF ok /\ c = "accounts"
               THEN [gone EXCEPT !["transactions"] = {t \in @ : t.accountId # id}]
               ELSE gone IN
  /\ db' = store
  /\ pending' = Notify(store)
  /\ call' = [by |-> by, op |-> "delete", coll |-> c, id |-> id,
              failed |-> ~ok,
              sdk |-> <<Sdk("deleteDoc", c, id)>>,
              toasts |-> <<Toast(IF ok THEN "success" ELSE "error", "delete", c)>>,
              threw |-> ~ok]
  /\ UNCHANGED usedIds

DeleteOp(by, c, id, ok) ==
  LET store == IF ok THEN DeleteDoc(db, c, id) ELSE db IN
  /\ db' = store
  /\ pending' = Notify(store)
  /\ call' = [by |-> by, op |-> "delete", coll |-> c, id |-> id,
              failed |-> ~ok,
              sdk |-> <<Sdk("deleteDoc", c, id)>>,
              toasts |-> <<Toast(IF ok THEN "success" ELSE "error", "delete", c)>>,
              threw |-> ~ok]
  /\ UNCHANGED usedIds

Provider == <<user, subUser, accounts, transactions, investments, loading>>

\* the list the context value exposes for a collection
LocalList(c) ==
  CASE c = "accounts" -> accounts
    [] c = "transactions" -> transactions
    [] c = "investments" -> investments

CallAdd(c) ==
  /\ Room
  /\ \E data \in Inputs(c), id \in FreshIds(c), ok \in BOOLEAN :
       AddOp("api", c, data, id, ok)
  /\ writes' = writes + 1
  /\ shown' = <<>>
  /\ UNCHANGED <<Provider, elsewhere>>

CallUpdate(c) ==
  /\ Room
  /\ \E id \in Ids, updates \in Inputs(c), ok \in BOOLEAN :
       UpdateOp("api", c, id, updates, ok)
  /\ writes' = writes + 1
  /\ shown' = <<>>
  /\ UNCHANGED <<Provider, elsewhere>>

CallDelete(c) ==
  /\ Room
  /\ \E id \in Ids, ok \in BOOLEAN : DeleteOp("api", c, id, ok)
  /\ writes' = writes + 1
  /\ shown' = <<>>
  /\ UNCHANGED <<Provider, elsewhere>>

addAccount == CallAdd("accounts")
updateAccount == CallUpdate("accounts")
deleteAccount == CallDelete("accounts")
addTransaction == CallAdd("transactions")
updateTransaction == CallUpdate("transactions")
deleteTransaction == CallDelete("transactions")
addInvestment == CallAdd("investments")
updateInvestment == CallUpdate("investments")
deleteInvestment == CallDelete("investments")

Next ==
  \/ AuthChange
  \/ RunEffect
  \/ SnapshotAccounts
  \/ SnapshotTransactions
  \/ SnapshotInvestments
  \/ addAccount
  \/ updateAccount
  \/ deleteAccount
  \/ addTransaction
  \/ updateTransaction
  \/ deleteTransaction
  \/ addInvestment
  \/ updateInvestment
  \/ deleteInvestment

Spec == Init /\ [][Next]_vars

\* ------------------------------------------------ the Gemini calls as steps
\* midnight (UTC) passes
Tick ==
  /\ now < MaxDay
  /\ now' = now + 1
  /\ UNCHANGED <<dataVars, pageVars, viewVars, rx, fallbacks, gi>>

extractReceiptData_call ==
  /\ rx.pc # "pending"
  /\ rx' = [IdleRx EXCEPT !.pc = "pending"]
  /\ UNCHANGED <<dataVars, pageVars, viewVars, now, fallbacks, gi>>

\* the file read and, when the file was read, the model call settle; the
\* model is not called when fileToGenerativePart rejects
extractReceiptData_settle ==
  /\ rx.pc = "pending"
  /\ \E read \in ReadOutcomes :
     \E reply \in (IF read = "loaded" THEN ReplyShapes ELSE {NoReply}) :
     \E payload \in (IF "v" \in Range(reply.text)
                     THEN ReceiptPayloads ELSE {EmptyObject}) :
     \E rnd \in (IF ReceiptTry(read, reply, payload).threw
                 THEN Randoms ELSE {0}) :
       LET result == extractReceiptData(read, reply, payload, rnd, now) IN
       /\ rx' = [pc |-> "done", read |-> read, reply |-> reply,
                 payload |-> payload, result |-> result]
       /\ fallbacks' =
            IF ReceiptTry(read, reply, payload).threw
            THEN (IF fallbacks = <<>> THEN <<>> ELSE <<fallbacks[Len(fallbacks)]>>)
                   \o <<result.value>>
            ELSE fallbacks
  /\ UNCHANGED <<dataVars, pageVars, viewVars, now, gi>>

NextReceipt ==
  \/ Tick
  \/ extractReceiptData_call
  \/ extractReceiptData_settle

SpecReceipt == Init /\ [][NextReceipt]_vars

generateFinancialInsights_call ==
  /\ gi.pc = "idle"
  /\ \E txs \in TxLists :
       gi' = [IdleGi EXCEPT !.pc = "pending", !.transactions = txs]
  /\ UNCHANGED <<dataVars, pageVars, viewVars, now, rx, fallbacks>>

generateFinancialInsights_settle ==
  /\ gi.pc = "pending"
  /\ \E reply \in ReplyShapes :
     \E payload \in (IF "v" \in Range(reply.text)
                     THEN InsightPayloads ELSE {<<>>}) :
       gi' = [gi EXCEPT !.pc = "done", !.reply = reply, !.payload = payload,
                        !.result = generateFinancialInsights(
                                      gi.transactions, reply, payload)]
  /\ UNCHANGED <<dataVars, pageVars, viewVars, now, rx, fallbacks>>

\* the caller has taken the settled value
generateFinancialInsights_return ==
  /\ gi.pc = "done"
  /\ gi' = IdleGi
  /\ UNCHANGED <<dataVars, pageVars, viewVars, now, rx, fallbacks>>

NextInsights ==
  \/ generateFinancialInsights_call
  \/ generateFinancialInsights_settle
  \/ generateFinancialInsights_return

SpecInsights == Init /\ [][NextInsights]_vars

\* the transaction lists the fallback is tried with: long enough to pass
\* the "More Data Needed" threshold, and with an amount of 0
FallbackSamples ==
  TxSamples \cup {[type |-> "expense", amount |-> 0, category |-> "Fees"]}
FallbackLists == UNION {[1 .. k -> FallbackSamples] : k \in 0 .. MaxFallbackTx}

generateFallbackInsights_call ==
  /\ gi.pc = "idle"
  /\ \E txs \in FallbackLists :
       gi' = [IdleGi EXCEPT !.pc = "pending", !.transactions = txs]
  /\ UNCHANGED <<dataVars, pageVars, viewVars, now, rx, fallbacks>>

\* the model call throws and the catch block returns the fallback list
generateFallbackInsights_settle ==
  /\ gi.pc = "pending"
  /\ LET reply == [kind |-> "throws", text |-> <<>>] IN
     gi' = [gi EXCEPT !.pc = "done", !.reply = reply,
                      !.result = generateFinancialInsights(
                                    gi.transactions, reply, <<>>)]
  /\ UNCHANGED <<dataVars, pageVars, viewVars, now, rx, fallbacks>>

NextFallback ==
  \/ generateFallbackInsights_call
  \/ generateFallbackInsights_settle
  \/ generateFinancialInsights_return

SpecFallback == Init /\ [][NextFallback]_vars

\* ----------------------------------------------------------------- pages
\* One page is mounted at a time; its state starts afresh when it mounts.
\* Form fields hold JavaScript values: Str("") is an empty input.
\* the files the user is tried picking
Files ==
  {[name |-> "a", type |-> "image/png", large |-> FALSE],
   [name |-> "c", type |-> "application/pdf", large |-> FALSE],
   [name |-> "d", type |-> "image/png", large |-> TRUE]}
NoFile == [name |-> "", type |-> "", large |-> FALSE]

NoData ==
  [merchantName |-> Null, amount |-> Null, date |-> Null, category |-> Null,
   description |-> Null]

\* useForm() without default values; the date input defaults to today
UploadBlank ==
  [accountId |-> Str(""), amount |-> Str(""), category |-> Str(""),
   description |-> Str(""), date |-> DateStr(now)]

FreshUpload ==
  [selectedFile |-> NoFile, extractedData |-> NoData, extractionError |-> "",
   uploading |-> FALSE, fields |-> UploadBlank, scan |-> "none"]

CrudPages == {"transactions", "settings", "investments"}

PageColl(p) ==
  CASE p = "transactions" -> "transactions"
    [] p = "settings" -> "accounts"
    [] p = "investments" -> "investments"
    [] p = "upload" -> "transactions"

\* Number(x)
Number(j) == IF j.t = "number" THEN j.n ELSE 0

\* reset({ ... }) in handleEdit / handleEditAccount: a record as field values;
\* format(transaction.date, 'yyyy-MM-dd') gives the date field
ToFields(c, d) ==
  CASE c = "accounts" ->
         [name |-> Str(d.name), type |-> Str(d.type), balance |-> Num(d.balance)]
    [] c = "transactions" ->
         [accountId |-> Num(d.accountId), type |-> Str(d.type),
          amount |-> Num(d.amount), category |-> Str(d.category),
          description |-> Str(d.description), date |-> DateStr(d.date)]
    [] c = "investments" ->
         [name |-> Str(d.name), type |-> Str(d.type),
          quantity |-> Num(d.quantity), buyPrice |-> Num(d.buyPrice),
          currentPrice |-> Num(d.currentPrice)]

\* the data onSubmit hands the provider: the fields with Number(...) and
\* new Date(...) applied
FromFields(c, f) ==
  CASE c = "accounts" ->
         [name |-> f.name.s, type |-> f.type.s, balance |-> Number(f.balance)]
    [] c = "transactions" ->
         [accountId |-> f.accountId.n, type |-> f.type.s,
          amount |-> Number(f.amount), category |-> f.category.s,
          description |-> f.description.s, date |-> f.date.n]
    [] c = "investments" ->
         [name |-> f.name.s, type |-> f.type.s,
          quantity |-> Number(f.quantity), buyPrice |-> Number(f.buyPrice),
          currentPrice |-> Number(f.currentPrice)]

\* reset(): the default values; the transaction form defaults its date to today
BlankFields(c) ==
  CASE c = "accounts" -> [name |-> Str(""), type |-> Str(""), balance |-> Str("")]
    [] c = "transactions" ->
         [accountId |-> Str(""), type |-> Str(""), amount |-> Str(""),
          category |-> Str(""), description |-> Str(""), date |-> DateStr(now)]
    [] c = "investments" ->
         [name |-> Str(""), type |-> Str(""), quantity |-> Str(""),
          buyPrice |-> Str(""), currentPrice |-> Str("")]

Filled(j) == j.t = "number" \/ (j.t = "string" /\ j.s # "")
\* variant: zero passes
PositiveOrZero(j) == j.t = "number" /\ j.n >= 0

Positive(j) == j.t = "number" /\ j.n > 0

\* the yup schemas of the three forms
Valid(c, f) ==
  CASE c = "accounts" ->
         /\ Filled(f.name)
         /\ Filled(f.type)
         /\ f.balance.t = "number"
         /\ f.balance.n >= 0
    [] c = "transactions" ->
         /\ Filled(f.accountId)
         /\ f.type.s \in TxTypes
         /\ Positive(f.amount)
         /\ Filled(f.category)
         /\ Filled(f.description)
         /\ Filled(f.date)
    [] c = "investments" ->
         /\ Filled(f.name)
         /\ f.type.s \in {"stock", "mutual_fund", "crypto", "gold", "sip", "other"}
         /\ Positive(f.quantity)
         /\ Positive(f.buyPrice)
         /\ Positive(f.currentPrice)

\* what the user is tried typing into a form: each valid input, and one
\* input with a number the schema refuses
Refused(c) ==
  LET f == ToFields(c, CHOOSE d \in Inputs(c) : TRUE) IN
  CASE c = "accounts" -> [f EXCEPT !.balance = Num(-1)]
    [] c = "transactions" -> [f EXCEPT !.amount = Num(0)]
    [] c = "investments" -> [f EXCEPT !.quantity = Num(-2)]

FormSamples(c) ==
  {ToFields(c, d) : d \in Inputs(c)} \cup {Refused(c)}
    \cup (IF c = "transactions"
          THEN {[Refused(c) EXCEPT !.amount = Num(-2)]} ELSE {})

NoRecord == [id |-> 0]
ClosedForm(c) == [show |-> FALSE, editing |-> NoRecord, fields |-> BlankFields(c)]
NoForm == [show |-> FALSE, editing |-> NoRecord, fields |-> [none |-> Str("")]]

\* the Transactions and Investments pages render a spinner while loading
Rendered(p) == page = p /\ (p \in {"transactions", "investments"} => ~loading)

\* a handler that calls no provider function and shows no toast
Silent(by) ==
         /\ call' = [NoCall EXCEPT !.by = by]
         /\ shown' = <<>>
         /\ UNCHANGED <<user, subUser, db, usedIds, pending, accounts,
                        transactions, investments, loading, writes, aiVars, viewVars>>

Quiet == Silent("none")

\* the router mounts another page
Navigate ==
  /\ \E p \in CrudPages \ {page} :
       /\ page' = p
       /\ form' = ClosedForm(PageColl(p))
  /\ UNCHANGED upload
  /\ Quiet

\* the Add button: setShowForm(true)
ShowForm(p) ==
  /\ Rendered(p)
  /\ ~form.show
  /\ form' = [form EXCEPT !.show = TRUE]
  /\ UNCHANGED <<page, upload>>
  /\ Quiet

\* the user types into the open form
TypeFields(p) ==
  /\ Rendered(p)
  /\ form.show
  /\ \E f \in FormSamples(PageColl(p)) \ {form.fields} :
       form' = [form EXCEPT !.fields = f]
  /\ UNCHANGED <<page, upload>>
  /\ Quiet

HandleEdit(p) ==
  /\ Rendered(p)
  /\ \E r \in Range(LocalList(PageColl(p))) :
       form' = [show |-> TRUE, editing |-> r, fields |-> ToFields(PageColl(p), r)]
  /\ UNCHANGED <<page, upload>>
  /\ Quiet

HandleCancel(p) ==
  /\ Rendered(p)
  /\ form.show
  /\ form' = ClosedForm(PageColl(p))
  /\ UNCHANGED <<page, upload>>
  /\ Quiet

Budget(max) == writes < max /\ \A c \in Collections : Len(pending[c]) < MaxPending

\* variant: the submit adds a record whether or not one is being edited
OnSubmitAlwaysAdding(p) ==
  LET c == PageColl(p)
      data == FromFields(c, form.fields) IN
  /\ Rendered(p)
  /\ form.show
  /\ IF ~Valid(c, form.fields)
     THEN /\ UNCHANGED <<page, form, upload>>
          /\ Silent(p)
     ELSE /\ Budget(MaxSubmits)
          /\ \E ok \in BOOLEAN : \E id \in FreshIds(c) : AddOp(p, c, data, id, ok)
          /\ form' = IF call'.threw THEN form ELSE ClosedForm(c)
          /\ shown' = <<>>
          /\ writes' = writes + 1
          /\ UNCHANGED <<page, upload, Provider, aiVars, viewVars>>

\* handleSubmit(onSubmit): a form that fails its schema shows the errors and
\* onSubmit is not called
OnSubmit(p) ==
  LET c == PageColl(p)
      data == FromFields(c, form.fields) IN
  /\ Rendered(p)
  /\ form.show
  /\ IF ~Valid(c, form.fields)
     THEN /\ UNCHANGED <<page, form, upload>>
          /\ Silent(p)
     ELSE /\ Budget(MaxSubmits)
          /\ \E ok \in BOOLEAN :
               IF form.editing # NoRecord
               THEN /\ UpdateOp(p, c, form.editing.id, data, ok)
                    /\ UNCHANGED usedIds
               ELSE \E id \in FreshIds(c) : AddOp(p, c, data, id, ok)
          /\ form' = IF call'.threw THEN form ELSE ClosedForm(c)
          /\ shown' = <<>>
          /\ writes' = writes + 1
          /\ UNCHANGED <<page, upload, Provider, aiVars, viewVars>>

\* window.confirm, then the provider's delete
HandleDelete(p) ==
  LET c == PageColl(p) IN
  /\ Rendered(p)
  /\ \E r \in Range(LocalList(c)), confirmed \in BOOLEAN :
       IF confirmed
       THEN /\ Budget(MaxSubmits)
            /\ \E ok \in BOOLEAN : DeleteOp(p, c, r.id, ok)
            /\ shown' = <<>>
            /\ writes' = writes + 1
            /\ UNCHANGED <<page, form, upload, Provider, aiVars, viewVars>>
       ELSE /\ UNCHANGED <<page, form, upload>>
            /\ Quiet

TransactionsPage_ShowForm == ShowForm("transactions")
TransactionsPage_TypeFields == TypeFields("transactions")
TransactionsPage_handleEdit == HandleEdit("transactions")
TransactionsPage_handleCancel == HandleCancel("transactions")
TransactionsPage_onSubmit == OnSubmit("transactions")
TransactionsPage_handleDelete == HandleDelete("transactions")
SettingsPage_ShowForm == ShowForm("settings")
SettingsPage_TypeFields == TypeFields("settings")
handleEditAccount == HandleEdit("settings")
handleCancelAccount == HandleCancel("settings")
onSubmitAccount == OnSubmit("settings")
handleDeleteAccount == HandleDelete("settings")
InvestmentsPage_ShowForm == ShowForm("investments")
InvestmentsPage_TypeFields == TypeFields("investments")
InvestmentsPage_handleEdit == HandleEdit("investments")
InvestmentsPage_handleCancel == HandleCancel("investments")
InvestmentsPage_onSubmit == OnSubmit("investments")
InvestmentsPage_handleDelete == HandleDelete("investments")

\* ---------------------------------------------------- the Upload Bill page
\* items?.join(", "): item lists here hold at most one item
Join(j) ==
  IF j.t # "array" THEN Undefined
  ELSE IF j.a = <<>> THEN Str("") ELSE Str(j.a[1])

\* scanReceiptWithGemini: the extracted record as the page uses it
ScanResult(data) ==
  [merchantName |-> OrElse(data.vendor, Undefined),
   amount |-> OrElse(data.amount, Undefined),
   date |-> OrElse(data.date, Undefined),
   category |-> OrElse(data.category, Undefined),
   description |-> OrElse(Join(data.items), OrElse(data.vendor, Undefined))]

\* !isNaN(new Date(x).getTime())
IsDate(j) == j.t = "string" /\ j.s = "yyyy-mm-dd"

\* categoryMapping[data.category.toLowerCase()] || data.category
MappedCategory(x) ==
  CASE x \in {"groceries", "Groceries", "food", "Food"} -> "Food & Dining"
    [] x \in {"transportation", "Transportation"} -> "Transportation"
    [] x \in {"shopping", "Shopping", "gifts", "Gifts"} -> "Shopping"
    [] x \in {"entertainment", "Entertainment"} -> "Entertainment"
    [] x \in {"utilities", "bills", "housing", "insurance"} -> "Bills & Utilities"
    [] x \in {"healthcare", "Healthcare"} -> "Healthcare"
    [] x \in {"education", "Education"} -> "Education"
    [] x \in {"travel", "Travel"} -> "Travel"
    [] x \in {"other-expense", "personal"} -> "Others"
    [] OTHER -> x

\* the setValue calls of handleExtractData
Prefill(f, data) ==
  [accountId |-> f.accountId,
   amount |-> IF data.amount.t = "number" /\ data.amount.n > 0
              THEN data.amount ELSE f.amount,
   date |-> IF Truthy(data.date) /\ IsDate(data.date) THEN data.date ELSE f.date,
   category |-> IF Truthy(data.category)
                THEN Str(MappedCategory(data.category.s)) ELSE f.category,
   description |-> IF Truthy(data.description) \/ Truthy(data.merchantName)
                   THEN OrElse(data.description, data.merchantName)
                   ELSE f.description]

\* the register(...) rules of the upload form
UploadValid(f) ==
  /\ Filled(f.accountId)
  /\ Filled(f.amount)
  /\ Number(f.amount) >= 1
  /\ Filled(f.category)
  /\ Filled(f.description)
  /\ Filled(f.date)

\* { ...data, type: "expense", amount: Number(data.amount), date: new Date(data.date) }
UploadData(f) ==
  [accountId |-> f.accountId.n, type |-> "expense", amount |-> Number(f.amount),
   category |-> f.category.s, description |-> f.description.s, date |-> f.date.n]

\* what the user is tried typing into the fields
UploadEdits ==
  [accountId |-> {Num(1)}, amount |-> {Num(0), Num(-1)},
   description |-> {Str("Lunch")}]

PageToast(kind, text) == [kind |-> kind, text |-> text]

UploadBillPage_handleFileSelect ==
  /\ page = "upload"
  /\ \E file \in Files :
       IF file.type # "image/png"
       THEN /\ shown' = <<PageToast("error", "Please upload a valid image file")>>
            /\ UNCHANGED upload
       ELSE IF file.large
       THEN /\ shown' = <<PageToast("error", "File size must be less than 10MB")>>
            /\ UNCHANGED upload
       ELSE /\ shown' = <<>>
            /\ upload' = [upload EXCEPT !.selectedFile = file,
                                        !.extractedData = NoData,
                                        !.extractionError = "",
                                        !.scan = "none"]
  /\ call' = NoCall
  /\ UNCHANGED <<page, form, user, subUser, db, usedIds, pending, accounts,
                 transactions, investments, loading, writes, aiVars, viewVars>>

\* the Extract button is rendered for a selected file and disabled while
\* an extraction runs
handleExtractData_start ==
  /\ page = "upload"
  /\ upload.selectedFile # NoFile
  /\ ~upload.uploading
  /\ upload' = [upload EXCEPT !.uploading = TRUE, !.extractionError = ""]
  /\ UNCHANGED <<page, form>>
  /\ Quiet

\* the replies the page's extraction is tried with
PageReplies ==
  {[kind |-> "throws", text |-> <<>>],
   [kind |-> "text", text |-> <<"t">>],
   [kind |-> "text", text |-> <<"{", "v", "}">>]}

PagePayloads == {p \in ReceiptPayloads : p.category # Null}

\* variant: the extracted record is saved as soon as it arrives
handleExtractData_settleSaving ==
  /\ page = "upload"
  /\ upload.uploading
  /\ Budget(MaxSaves)
  /\ \E read \in ReadOutcomes, rnd \in {437}, id \in FreshIds("transactions") :
       LET got == extractReceiptData(read, NoReply, EmptyObject, rnd, now).value
           data == ScanResult(got)
           fields == Prefill(upload.fields, data) IN
       /\ upload' = [upload EXCEPT !.uploading = FALSE, !.scan = "failed",
                                   !.extractedData = data, !.fields = fields]
       /\ AddOp("handleExtractData", "transactions", UploadData(fields), id, TRUE)
  /\ shown' = <<PageToast("success", "Receipt data extracted successfully!")>>
  /\ writes' = writes + 1
  /\ UNCHANGED <<page, form, Provider, aiVars, viewVars>>

handleExtractData_settle ==
  /\ page = "upload"
  /\ upload.uploading
  /\ \E read \in ReadOutcomes :
     \E reply \in (IF read = "loaded" THEN PageReplies ELSE {NoReply}) :
     \E payload \in (IF "v" \in Range(reply.text)
                     THEN PagePayloads ELSE {EmptyObject}) :
     \E rnd \in (IF ReceiptTry(read, reply, payload).threw
                 THEN {437} ELSE {0}) :
       LET got == extractReceiptData(read, reply, payload, rnd, now)
           data == ScanResult(got.value)
           scan == IF ReceiptTry(read, reply, payload).threw
                   THEN "failed" ELSE "read" IN
       IF got.settled = "rejected"
       THEN /\ upload' = [upload EXCEPT !.uploading = FALSE,
                                        !.scan = scan,
                                        !.extractionError = "Failed to scan receipt"]
            /\ shown' = <<PageToast("error", "Failed to scan receipt")>>
       ELSE IF Truthy(data.category) /\ data.category.t # "string"
       THEN \* data.category.toLowerCase is not a function
            /\ upload' = [upload EXCEPT !.uploading = FALSE,
                                        !.scan = scan,
                                        !.extractedData = data,
                                        !.fields =
                                           [Prefill(upload.fields, data) EXCEPT
                                              !.category = upload.fields.category,
                                              !.description = upload.fields.description],
                                        !.extractionError = "TypeError"]
            /\ shown' = <<PageToast("error", "TypeError")>>
       ELSE /\ upload' = [upload EXCEPT !.uploading = FALSE,
                                        !.scan = scan,
                                        !.extractedData = data,
                                        !.fields = Prefill(upload.fields, data)]
            /\ shown' = <<PageToast("success", "Receipt data extracted successfully!")>>
  /\ call' = NoCall
  /\ UNCHANGED <<page, form, user, subUser, db, usedIds, pending, accounts,
                 transactions, investments, loading, writes, aiVars, viewVars>>

clearFile ==
  /\ page = "upload"
  /\ upload.selectedFile # NoFile
  /\ upload' = [upload EXCEPT !.selectedFile = NoFile, !.extractedData = NoData,
                              !.extractionError = "", !.scan = "none"]
  /\ UNCHANGED <<page, form>>
  /\ Quiet

\* the user edits one field of the transaction form
UploadBillPage_TypeField ==
  /\ page = "upload"
  /\ \E k \in DOMAIN UploadEdits : \E v \in UploadEdits[k] \ {upload.fields[k]} :
       upload' = [upload EXCEPT !.fields[k] = v]
  /\ UNCHANGED <<page, form>>
  /\ Quiet

UploadBillPage_onSubmit ==
  /\ page = "upload"
  /\ IF ~UploadValid(upload.fields)
     THEN /\ UNCHANGED <<page, form, upload>>
          /\ Silent("upload")
     ELSE /\ Budget(MaxSaves)
          /\ \E ok \in BOOLEAN, id \in FreshIds("transactions") :
               AddOp("upload", "transactions", UploadData(upload.fields), id, ok)
          /\ upload' = IF call'.threw THEN upload
                       ELSE [upload EXCEPT !.fields = UploadBlank,
                                           !.selectedFile = NoFile,
                                           !.extractedData = NoData,
                                           !.extractionError = "",
                                           !.scan = "none"]
          /\ shown' = IF call'.threw THEN <<>>
                      ELSE <<PageToast("success", "Transaction added successfully!")>>
          /\ writes' = writes + 1
          /\ UNCHANGED <<page, form, Provider, aiVars, viewVars>>

\* what u1 stored in an earlier session: one document of each kind, the
\* transaction on the account
Stored ==
  [c \in Collections |->
     {NewDoc(1, "u1", CHOOSE d \in Inputs(c) : c = "transactions" => d.accountId = 1)}]

\* a restored session of u1 whose listeners have delivered their first
\* snapshots
InitPages ==
  /\ AiInit
  /\ PageInit
  /\ ViewInit
  /\ user = "u1"
  /\ subUser = "u1"
  /\ db = Stored
  /\ usedIds = [c \in Collections |-> {1}]
  /\ pending = [c \in Collections |-> <<>>]
  /\ accounts = MapDocs(Query(Stored, "accounts", "u1"))
  /\ transactions = MapDocs(Query(Stored, "transactions", "u1"))
  /\ investments = MapDocs(Query(Stored, "investments", "u1"))
  /\ loading = FALSE
  /\ call = NoCall
  /\ shown = <<>>
  /\ writes = 0

NextPages ==
  \/ SnapshotAccounts
  \/ SnapshotTransactions
  \/ SnapshotInvestments
  \/ Navigate
  \/ TransactionsPage_ShowForm
  \/ TransactionsPage_TypeFields
  \/ TransactionsPage_handleEdit
  \/ TransactionsPage_handleCancel
  \/ TransactionsPage_onSubmit
  \/ TransactionsPage_handleDelete
  \/ SettingsPage_ShowForm
  \/ SettingsPage_TypeFields
  \/ handleEditAccount
  \/ handleCancelAccount
  \/ onSubmitAccount
  \/ handleDeleteAccount
  \/ InvestmentsPage_ShowForm
  \/ InvestmentsPage_TypeFields
  \/ InvestmentsPage_handleEdit
  \/ InvestmentsPage_handleCancel
  \/ InvestmentsPage_onSubmit
  \/ InvestmentsPage_handleDelete

SpecPages == InitPages /\ [][NextPages]_vars

\* the /upload route in a session whose listeners have delivered their
\* first snapshots
InitUpload ==
  /\ AiInit
  /\ ViewInit
  /\ page = "upload"
  /\ form = NoForm
  /\ upload = FreshUpload
  /\ user = "u1"
  /\ subUser = "u1"
  /\ db = [c \in Collections |-> {}]
  /\ usedIds = [c \in Collections |-> {}]
  /\ pending = [c \in Collections |-> <<>>]
  /\ accounts = <<>>
  /\ transactions = <<>>
  /\ investments = <<>>
  /\ loading = FALSE
  /\ call = NoCall
  /\ shown = <<>>
  /\ writes = 0

NextUpload ==
  \/ SnapshotTransactions
  \/ UploadBillPage_handleFileSelect
  \/ handleExtractData_start
  \/ handleExtractData_settle
  \/ clearFile
  \/ UploadBillPage_TypeField
  \/ UploadBillPage_onSubmit

SpecUpload == InitUpload /\ [][NextUpload]_vars

\* the two forms that save transactions: the /transactions route in a
\* restored session, or the /upload route
InitForms ==
  \/ InitUpload
  \/ /\ AiInit
     /\ ViewInit
     /\ page = "transactions"
     /\ form = ClosedForm("transactions")
     /\ upload = NoUpload
     /\ user = "u1"
     /\ subUser = "u1"
     /\ db = Stored
     /\ usedIds = [c \in Collections |-> {1}]
     /\ pending = [c \in Collections |-> <<>>]
     /\ accounts = MapDocs(Query(Stored, "accounts", "u1"))
     /\ transactions = MapDocs(Query(Stored, "transactions", "u1"))
     /\ investments = MapDocs(Query(Stored, "investments", "u1"))
     /\ loading = FALSE
     /\ call = NoCall
     /\ shown = <<>>
     /\ writes = 0

NextForms ==
  \/ SnapshotTransactions
  \/ TransactionsPage_ShowForm
  \/ TransactionsPage_TypeFields
  \/ TransactionsPage_handleEdit
  \/ TransactionsPage_handleCancel
  \/ TransactionsPage_onSubmit
  \/ TransactionsPage_handleDelete
  \/ UploadBillPage_handleFileSelect
  \/ handleExtractData_start
  \/ handleExtractData_settle
  \/ clearFile
  \/ UploadBillPage_TypeField
  \/ UploadBillPage_onSubmit

SpecForms == InitForms /\ [][NextForms]_vars

\* ------------------------------------------------------- the Reports page
\* A Date is an instant; a calendar month holds MonthLen instants and a
\* year twelve months.  Instant 0 is the first instant of January of year 0.
MonthsPerYear == 12
YearLen == MonthsPerYear * MonthLen

getFullYear(t) == t \div YearLen
startOfMonth(t) == t - (t % MonthLen)
endOfMonth(t) == startOfMonth(t) + MonthLen - 1
startOfYear(t) == t - (t % YearLen)
endOfYear(t) == startOfYear(t) + YearLen - 1
\* new Date(year, i, 1)
FirstOfMonth(year, i) == year * YearLen + i * MonthLen

\* format(monthDate, "MMM")
MonthNames ==
  <<"Jan", "Feb", "Mar", "Apr", "May", "Jun",
    "Jul", "Aug", "Sep", "Oct", "Nov", "Dec">>
formatMMM(t) == MonthNames[((t % YearLen) \div MonthLen) + 1]

\* transactions.filter(t => t.date >= start && t.date <= end)
Between(txs, start, end) ==
  SelectSeq(txs, LAMBDA t : t.date >= start /\ t.date <= end)

\* variant: a month ends before its last instant
getMonthlyTrendShortMonth(txs, year) ==
  [k \in 1 .. MonthsPerYear |->
     LET monthDate == FirstOfMonth(getFullYear(year), k - 1)
         monthTransactions ==
           Between(txs, startOfMonth(monthDate), endOfMonth(monthDate) - 1)
         income == SumOf(monthTransactions, "income")
         expenses == SumOf(monthTransactions, "expense")
     IN [month |-> formatMMM(monthDate), income |-> income,
         expenses |-> expenses, net |-> income - expenses]]

getMonthlyTrend(txs, year) ==
  [k \in 1 .. MonthsPerYear |->
     LET monthDate == FirstOfMonth(getFullYear(year), k - 1)
         monthTransactions ==
           Between(txs, startOfMonth(monthDate), endOfMonth(monthDate))
         income == SumOf(monthTransactions, "income")
         expenses == SumOf(monthTransactions, "expense")
     IN [month |-> formatMMM(monthDate), income |-> income,
         expenses |-> expenses, net |-> income - expenses]]

\* the transactions and accounts the Reports page is tried with: dates at
\* the first and last instants of months and years
ReportTransactions ==
  {[accountId |-> 1, type |-> "income", amount |-> 10, category |-> "Salary",
    description |-> "pay", date |-> FirstOfMonth(1, 0)],
   [accountId |-> 1, type |-> "expense", amount |-> 4,
    category |-> "Food & Dining", description |-> "lunch",
    date |-> endOfMonth(FirstOfMonth(1, 0))],
   [accountId |-> 2, type |-> "expense", amount |-> 3, category |-> "Travel",
    description |-> "bus", date |-> FirstOfMonth(1, 1) + 1],
   [accountId |-> 2, type |-> "income", amount |-> 2, category |-> "Gift",
    description |-> "gift", date |-> endOfYear(0)],
   [accountId |-> 1, type |-> "expense", amount |-> 6,
    category |-> "Food & Dining", description |-> "dinner",
    date |-> FirstOfMonth(2, 0)]}

ReportAccounts ==
  {[name |-> "Wallet", type |-> "Cash", balance |-> 0]}

\* the instants the period picker is tried with
PeriodSamples == {FirstOfMonth(1, 0), FirstOfMonth(1, 1) + 1, endOfYear(0)}

\* a store holding some of the sample documents, all of u1
ReportStores ==
  {[c \in Collections |->
      CASE c = "accounts" ->
             {NewDoc(1, "u1", a) : a \in as}
        [] c = "transactions" ->
             {NewDoc(t.date + 1, "u1", t) : t \in ts}
        [] c = "investments" -> {}] :
     as \in SUBSET ReportAccounts, ts \in SUBSET ReportTransactions}

NoDownload == [ran |-> FALSE, name |-> <<>>, rows |-> <<>>]

\* reportData before the memo has run
NotRendered == [rendered |-> FALSE, threw |-> FALSE]

FreshReport(period) ==
  [mounted |-> TRUE, reportType |-> "monthly", selectedPeriod |-> period,
   trend |-> <<>>, download |-> NoDownload, data |-> NotRendered]

\* the Reports page mounted in a session of u1 whose lists are loaded
InitReports ==
  /\ AiInit
  /\ PageInit
  /\ portfolio = NoPortfolio
  /\ analysis = NoAnalysis
  /\ \E period \in PeriodSamples : report = FreshReport(period)
  /\ user = "u1"
  /\ subUser = "u1"
  /\ db \in ReportStores
  /\ usedIds = [c \in Collections |-> {d.id : d \in db[c]}]
  /\ pending = [c \in Collections |-> <<>>]
  /\ accounts = MapDocs(Query(db, "accounts", "u1"))
  /\ transactions = MapDocs(Query(db, "transactions", "u1"))
  /\ investments = <<>>
  /\ loading = FALSE
  /\ call = NoCall
  /\ shown = <<>>
  /\ writes = 0

ReportStep ==
  /\ report.mounted
  /\ call' = NoCall
  /\ UNCHANGED <<user, subUser, db, usedIds, pending, accounts, transactions,
                 investments, loading, writes, aiVars, pageVars, portfolio,
                 analysis>>

setReportType ==
  /\ \E type \in {"monthly", "yearly"} \ {report.reportType} :
       report' = [FreshReport(report.selectedPeriod) EXCEPT !.reportType = type]
  /\ shown' = <<>>
  /\ ReportStep

setSelectedPeriod ==
  /\ \E period \in PeriodSamples \ {report.selectedPeriod} :
       report' = [FreshReport(period) EXCEPT !.reportType = report.reportType]
  /\ shown' = <<>>
  /\ ReportStep

\* the helper applied to the loaded transactions and the selected period
getMonthlyTrend_apply ==
  /\ report' = [report EXCEPT
                  !.trend = getMonthlyTrend(transactions, report.selectedPeriod),
                  !.download = NoDownload]
  /\ shown' = <<>>
  /\ ReportStep

periodStart(type, period) ==
  IF type = "monthly" THEN startOfMonth(period) ELSE startOfYear(period)

periodEnd(type, period) ==
  IF type = "monthly" THEN endOfMonth(period) ELSE endOfYear(period)

\* format(t.date, "yyyy-MM-dd"): year, month and day of the month
formatDate(t) ==
  <<getFullYear(t), ((t % YearLen) \div MonthLen) + 1, (t % MonthLen) + 1>>

\* accounts.find((a) => a.id === t.accountId)?.name || "Unknown"
AccountName(accts, id) ==
  LET found == {i \in 1 .. Len(accts) : accts[i].id = id}
      first == CHOOSE i \in found : \A j \in found : i <= j
  IN IF found = {} \/ accts[first].name = "" THEN "Unknown"
     ELSE accts[first].name

CsvHeader == <<"Date", "Type", "Amount", "Category", "Description", "Account">>

CsvRow(t, accts) ==
  <<formatDate(t.date), t.type, t.amount, t.category, t.description,
    AccountName(accts, t.accountId)>>

\* variant: every loaded transaction is exported
csvContentUnfiltered(txs, accts, type, period) ==
  <<CsvHeader>> \o [i \in 1 .. Len(txs) |-> CsvRow(txs[i], accts)]

\* the rows of csvContent; a row's cells are joined by "," and the rows by
\* "\n"; <<>> stands for nothing to export
csvContent(txs, accts, type, period) ==
  LET periodTransactions ==
        Between(txs, periodStart(type, period), periodEnd(type, period))
  IN IF periodTransactions = <<>> THEN <<>>
     ELSE <<CsvHeader>>
            \o [i \in 1 .. Len(periodTransactions) |->
                  CsvRow(periodTransactions[i], accts)]

downloadCSV ==
  /\ LET rows == csvContent(transactions, accounts, report.reportType,
                            report.selectedPeriod) IN
     IF Len(transactions) = 0
     THEN /\ shown' = <<PageToast("error", "No transactions to export")>>
          /\ report' = [report EXCEPT !.download =
                          [ran |-> TRUE, name |-> <<>>, rows |-> <<>>]]
     ELSE IF rows = <<>>
     THEN /\ shown' = <<PageToast("error",
                                  "No transactions in selected period to export")>>
          /\ report' = [report EXCEPT !.download =
                          [ran |-> TRUE, name |-> <<>>, rows |-> <<>>]]
     ELSE /\ shown' = <<PageToast("success", "CSV downloaded successfully!")>>
          /\ report' = [report EXCEPT !.download =
                          [ran |-> TRUE,
                           name |-> <<"transactions",
                                      getFullYear(report.selectedPeriod),
                                      ((report.selectedPeriod % YearLen)
                                         \div MonthLen) + 1>>,
                           rows |-> rows]]
  /\ ReportStep

\* the record of the early return
ReportDefaults(today) ==
  [totalIncome |-> 0, totalExpenses |-> 0, netSavings |-> 0,
   transactionCount |-> 0, categoryData |-> <<>>, accountBreakdown |-> <<>>,
   trendData |-> <<>>, periodStart |-> today, periodEnd |-> today]

\* The factory of the reportData memo.  useMemo runs it during the call, in
\* the component body, above the const declarations of getDailyTrend and
\* getMonthlyTrend: past the early return it computes the totals and the
\* breakdowns and then reads one of the two bindings, which is not
\* initialised yet (a ReferenceError; a TypeError where the build lowers
\* const to var), so the render throws and no record is returned.
reportData(accts, txs, type, period, today) ==
  IF Len(accts) = 0 \/ Len(txs) = 0
  THEN [rendered |-> TRUE, threw |-> FALSE, value |-> ReportDefaults(today)]
  ELSE [rendered |-> TRUE, threw |-> TRUE]

\* the page renders with the lists, report type and period as they stand
ReportsPage_render ==
  /\ report' = [report EXCEPT
                  !.data = reportData(accounts, transactions, report.reportType,
                                      report.selectedPeriod, now),
                  !.download = NoDownload]
  /\ shown' = <<>>
  /\ ReportStep

NextReports ==
  \/ ReportsPage_render
  \/ setReportType
  \/ setSelectedPeriod
  \/ getMonthlyTrend_apply
  \/ downloadCSV

SpecReports == InitReports /\ [][NextReports]_vars

\* --------------------------------------------------- the Investments page
INVESTMENT_TYPES ==
  <<[value |-> "stock", label |-> "Stocks"],
    [value |-> "mutual_fund", label |-> "Mutual Funds"],
    [value |-> "crypto", label |-> "Cryptocurrency"],
    [value |-> "gold", label |-> "Gold"],
    [value |-> "sip", label |-> "SIP"],
    [value |-> "other", label |-> "Others"]>>

\* INVESTMENT_TYPES.find((t) => t.value === type)?.label || type
TypeLabel(type) ==
  LET hits == {i \in DOMAIN INVESTMENT_TYPES : INVESTMENT_TYPES[i].value = type}
  IN IF hits = {} THEN type
     ELSE INVESTMENT_TYPES[CHOOSE i \in hits : \A j \in hits : i <= j].label

\* the quotient num / den, kept exact
Zero == [num |-> 0, den |-> 1]
\* whole > 0 ? (part / whole) * 100 : 0
Percent(part, whole) ==
  IF whole > 0 THEN [num |-> part * 100, den |-> whole] ELSE Zero

CurrentValue(inv) == inv.quantity * inv.currentPrice
TotalCost(inv) == inv.quantity * inv.buyPrice

\* investments.reduce((sum, inv) => sum + inv.quantity * inv.currentPrice, 0)
RECURSIVE totalInvestmentValue(_)
totalInvestmentValue(invs) ==
  IF invs = <<>> THEN 0
  ELSE totalInvestmentValue(SubSeq(invs, 1, Len(invs) - 1))
         + CurrentValue(invs[Len(invs)])

\* investments.reduce((sum, inv) => sum + inv.quantity * inv.buyPrice, 0)
RECURSIVE totalInvestmentCost(_)
totalInvestmentCost(invs) ==
  IF invs = <<>> THEN 0
  ELSE totalInvestmentCost(SubSeq(invs, 1, Len(invs) - 1))
         + TotalCost(invs[Len(invs)])

\* variant: the holding that opens a type's entry is not added to it
RECURSIVE typeBreakdownOpeningLost(_)
typeBreakdownOpeningLost(invs) ==
  IF invs = <<>> THEN <<>>
  ELSE LET acc == typeBreakdownOpeningLost(SubSeq(invs, 1, Len(invs) - 1))
           inv == invs[Len(invs)]
           known == \E i \in DOMAIN acc : acc[i].type = inv.type
       IN IF ~known
          THEN Append(acc, [type |-> inv.type, value |-> 0, cost |-> 0,
                            gainLoss |-> 0, count |-> 0])
          ELSE [i \in DOMAIN acc |->
                  IF acc[i].type = inv.type
                  THEN [type |-> inv.type,
                        value |-> acc[i].value + CurrentValue(inv),
                        cost |-> acc[i].cost + TotalCost(inv),
                        gainLoss |-> acc[i].gainLoss
                                       + (CurrentValue(inv) - TotalCost(inv)),
                        count |-> acc[i].count + 1]
                  ELSE acc[i]]

\* the reduce that builds typeBreakdown; Object.values lists the entries in
\* the order their types were first met
RECURSIVE typeBreakdown(_)
typeBreakdown(invs) ==
  IF invs = <<>> THEN <<>>
  ELSE LET acc == typeBreakdown(SubSeq(invs, 1, Len(invs) - 1))
           inv == invs[Len(invs)]
           known == \E i \in DOMAIN acc : acc[i].type = inv.type
           opened == IF known THEN acc
                     ELSE Append(acc, [type |-> inv.type, value |-> 0,
                                       cost |-> 0, gainLoss |-> 0, count |-> 0])
       IN [i \in DOMAIN opened |->
             IF opened[i].type = inv.type
             THEN [type |-> inv.type,
                   value |-> opened[i].value + CurrentValue(inv),
                   cost |-> opened[i].cost + TotalCost(inv),
                   gainLoss |-> opened[i].gainLoss
                                  + (CurrentValue(inv) - TotalCost(inv)),
                   count |-> opened[i].count + 1]
             ELSE opened[i]]

portfolioData(invs) ==
  LET value == totalInvestmentValue(invs)
      cost == totalInvestmentCost(invs)
      breakdown == typeBreakdown(invs)
  IN [totalInvestmentValue |-> value,
      totalInvestmentCost |-> cost,
      totalGainLoss |-> value - cost,
      totalGainLossPercentage |-> Percent(value - cost, cost),
      typeData |->
        [i \in DOMAIN breakdown |->
           [type |-> breakdown[i].type, value |-> breakdown[i].value,
            cost |-> breakdown[i].cost, gainLoss |-> breakdown[i].gainLoss,
            count |-> breakdown[i].count,
            name |-> TypeLabel(breakdown[i].type),
            percentage |-> Percent(breakdown[i].value, value)]],
      investmentData |->
        [i \in DOMAIN invs |->
           [id |-> invs[i].id,
            currentValue |-> CurrentValue(invs[i]),
            totalCost |-> TotalCost(invs[i]),
            gainLoss |-> CurrentValue(invs[i]) - TotalCost(invs[i]),
            gainLossPercentage |->
              Percent(CurrentValue(invs[i]) - TotalCost(invs[i]),
                      TotalCost(invs[i]))]]]

\* the Dashboard's figure
investmentGainLoss(invs) ==
  totalInvestmentValue(invs) - totalInvestmentCost(invs)

\* the holdings the figures are tried with; the fourth was stored with no
\* buy price
Holdings ==
  <<[name |-> "ACME", type |-> "stock", quantity |-> 2, buyPrice |-> 10,
     currentPrice |-> 15],
    [name |-> "Initech", type |-> "stock", quantity |-> 1, buyPrice |-> 20,
     currentPrice |-> 5],
    [name |-> "Coin", type |-> "crypto", quantity |-> 3, buyPrice |-> 4,
     currentPrice |-> 4],
    [name |-> "Bar", type |-> "gold", quantity |-> 1, buyPrice |-> 0,
     currentPrice |-> 7],
    [name |-> "Plan", type |-> "sip", quantity |-> 5, buyPrice |-> 2,
     currentPrice |-> 1],
    [name |-> "Fund", type |-> "mutual_fund", quantity |-> 2, buyPrice |-> 3,
     currentPrice |-> 6]>>

PortfolioStores ==
  {[c \in Collections |->
      IF c = "investments"
      THEN {NewDoc(i, "u1", Holdings[i]) : i \in held} ELSE {}] :
     held \in SUBSET DOMAIN Holdings}

\* a session of u1 whose lists are loaded
InitPortfolio ==
  /\ AiInit
  /\ PageInit
  /\ ViewInit
  /\ user = "u1"
  /\ subUser = "u1"
  /\ db \in PortfolioStores
  /\ usedIds = [c \in Collections |-> {d.id : d \in db[c]}]
  /\ pending = [c \in Collections |-> <<>>]
  /\ accounts = <<>>
  /\ transactions = <<>>
  /\ investments = MapDocs(Query(db, "investments", "u1"))
  /\ loading = FALSE
  /\ call = NoCall
  /\ shown = <<>>
  /\ writes = 0

\* the Investments page renders and its memo computes portfolioData
InvestmentsPage_render ==
  /\ ~loading
  /\ portfolio' = [rendered |-> TRUE, view |-> "investments",
                   data |-> portfolioData(investments)]
  /\ call' = NoCall
  /\ shown' = <<>>
  /\ UNCHANGED <<user, subUser, db, usedIds, pending, accounts, transactions,
                 investments, loading, writes, aiVars, pageVars, report,
                 analysis>>

\* the Dashboard renders and its memo computes investmentGainLoss
Dashboard_render ==
  /\ portfolio' = [rendered |-> TRUE, view |-> "dashboard",
                   investmentGainLoss |-> investmentGainLoss(investments)]
  /\ call' = NoCall
  /\ shown' = <<>>
  /\ UNCHANGED <<user, subUser, db, usedIds, pending, accounts, transactions,
                 investments, loading, writes, aiVars, pageVars, report,
                 analysis>>

NextPortfolio ==
  \/ InvestmentsPage_render
  \/ Dashboard_render

SpecPortfolio == InitPortfolio /\ [][NextPortfolio]_vars

\* ------------------------------------------------------ the Analysis page
\* requests are numbered in the order generateInsights started them; insightsOf
\* is the number of the request whose result is in insights, settled the
\* highest number that has settled; seen is the transactions.length the
\* effect last ran with (-1 before its first run)
FreshAnalysis ==
  [mounted |-> TRUE, insights |-> <<>>, insightsOf |-> 0, settled |-> 0,
   loadingInsights |-> FALSE, inFlight |-> <<>>, started |-> 0, seen |-> -1]

\* the Analysis page mounted in a restored session of u1
InitAnalysis ==
  /\ AiInit
  /\ PageInit
  /\ report = NoReport
  /\ portfolio = NoPortfolio
  /\ analysis = FreshAnalysis
  /\ user = "u1"
  /\ subUser = "u1"
  /\ db = Stored
  /\ usedIds = [c \in Collections |-> {1}]
  /\ pending = [c \in Collections |-> <<>>]
  /\ accounts = MapDocs(Query(Stored, "accounts", "u1"))
  /\ transactions \in {<<>>, MapDocs(Query(Stored, "transactions", "u1"))}
  /\ investments = MapDocs(Query(Stored, "investments", "u1"))
  /\ loading = FALSE
  /\ call = NoCall
  /\ shown = <<>>
  /\ writes = 0

AnalysisStep ==
  /\ analysis.mounted
  /\ call' = NoCall
  /\ UNCHANGED <<user, subUser, db, usedIds, pending, accounts, transactions,
                 investments, loading, writes, aiVars, pageVars, report,
                 portfolio>>

\* generateInsights as far as its await: the request goes out with the
\* transactions of the render the caller closed over
generateInsights_call(a) ==
  IF Len(transactions) = 0
  THEN /\ analysis' = a
       /\ shown' = <<PageToast("error",
                               "Add some transactions first to get AI insights")>>
  ELSE /\ analysis' = [a EXCEPT
                         !.loadingInsights = TRUE,
                         !.started = @ + 1,
                         !.inFlight = Append(@, [n |-> a.started + 1,
                                                 txs |-> transactions])]
       /\ shown' = <<>>

\* useEffect(..., [transactions.length])
AnalysisPage_effect ==
  /\ analysis.seen # Len(transactions)
  /\ analysis.started < MaxRequests
  /\ LET a == [analysis EXCEPT !.seen = Len(transactions)] IN
     IF Len(transactions) > 0 /\ Len(analysis.insights) = 0
     THEN generateInsights_call(a)
     ELSE analysis' = a /\ shown' = <<>>
  /\ AnalysisStep

\* the Refresh Insights button, disabled while loadingInsights or with no
\* transactions; the effect of the mount has run before a click can come
RefreshInsights ==
  /\ analysis.seen # -1
  /\ ~analysis.loadingInsights
  /\ Len(transactions) # 0
  /\ analysis.started < MaxRequests
  /\ generateInsights_call(analysis)
  /\ AnalysisStep

AnalysisReplies ==
  {[kind |-> "throws", text |-> <<>>],
   [kind |-> "text", text |-> <<"[", "v", "]">>]}

\* one of the requests in flight settles, in whatever order the network
\* answers, and generateInsights runs from its await to its end
generateInsights_settle ==
  /\ \E i \in DOMAIN analysis.inFlight :
     \E reply \in AnalysisReplies :
     \E payload \in (IF "v" \in Range(reply.text)
                     THEN InsightPayloads ELSE {<<>>}) :
       LET req == analysis.inFlight[i]
           got == generateFinancialInsights(req.txs, reply, payload) IN
       IF got.settled = "rejected"
       THEN /\ analysis' = [analysis EXCEPT
                              !.inFlight = SelectSeq(@, LAMBDA r : r.n # req.n),
                              !.settled = IF req.n > @ THEN req.n ELSE @,
                              !.loadingInsights = FALSE]
            /\ shown' = <<PageToast("error", "Failed to generate insights")>>
       ELSE /\ analysis' = [analysis EXCEPT
                              !.inFlight = SelectSeq(@, LAMBDA r : r.n # req.n),
                              !.insights = got.value,
                              !.insightsOf = req.n,
                              !.settled = IF req.n > @ THEN req.n ELSE @,
                              !.loadingInsights = FALSE]
            /\ shown' = <<PageToast("success",
                                    "AI insights generated successfully!")>>
  /\ AnalysisStep

\* another session of the user stores a transaction and the listener is
\* told
RemoteWrite ==
  /\ analysis.mounted
  /\ \A c \in Collections : Len(pending[c]) < MaxPending
  /\ \E data \in TransactionInputs, id \in FreshIds("transactions") :
       LET store == AddDoc(db, "transactions", id, user, data) IN
       /\ db' = store
       /\ usedIds' = [usedIds EXCEPT !["transactions"] = @ \cup {id}]
       /\ pending' = Notify(store)
  /\ call' = NoCall
  /\ shown' = <<>>
  /\ UNCHANGED <<user, subUser, accounts, transactions, investments, loading,
                 writes, elsewhere>>

NextAnalysis ==
  \/ AnalysisPage_effect
  \/ RefreshInsights
  \/ generateInsights_settle
  \/ RemoteWrite
  \/ SnapshotTransactions

SpecAnalysis == InitAnalysis /\ [][NextAnalysis]_vars

\* ------------------------------------------------------------------ claims
\* a step in which the listener of c hands its callback the next snapshot
Delivered(c) ==
  /\ pending[c] # <<>>
  /\ pending'[c] = Tail(pending[c])
  /\ subUser' = subUser

\* C3: a snapshot callback for a collection sets that collection's list to
\* exactly the documents of the snapshot delivered, whatever the list held
\* before, and leaves the lists of the other two collections as they were.
C3_SnapshotReplacesList ==
  [][/\ Delivered("accounts") =>
          /\ accounts' = Head(pending["accounts"])
          /\ transactions' = transactions
          /\ investments' = investments
     /\ Delivered("transactions") =>
          /\ transactions' = Head(pending["transactions"])
          /\ accounts' = accounts
          /\ investments' = investments
     /\ Delivered("investments") =>
          /\ investments' = Head(pending["investments"])
          /\ accounts' = accounts
          /\ transactions' = transactions]_vars

\* a delivered snapshot has emptied a list again: the account once added and
\* shown has been deleted, nothing is queued, and the list holds nothing
C3_Witness ==
  /\ subUser = user
  /\ user \in Users
  /\ usedIds["accounts"] # {}
  /\ db["accounts"] = {}
  /\ pending["accounts"] = <<>>
  /\ accounts = <<>>
  /\ writes = 2

\* C4: every record in the provider's lists belongs to the user now signed in.
C4_ListsOwnedByCurrentUser ==
  \A c \in Collections : \A d \in Range(LocalList(c)) : d.userId = user

\* the step just taken was the write call op on collection c
Wrote(op, c) == call'.op = op /\ call'.coll = c

OwnWrite(c) == call'.op # "none" /\ call'.coll = c

\* C5 as stated: every write call issues exactly one database operation.
C5_ExactlyOneOperation ==
  call.op # "none" => Len(call.sdk) = 1

\* C5 amended: a write call issues one database operation, on one document of
\* its own collection (none at all when it is an add and nobody is signed
\* in), and every other document of the three collections is unchanged.
C5_SingleDocumentWrite ==
  [][\A c \in Collections : OwnWrite(c) =>
       /\ Len(call'.sdk) = IF call'.op = "add" /\ user = NoUser THEN 0 ELSE 1
       /\ \A i \in 1 .. Len(call'.sdk) :
            call'.sdk[i].coll = c /\ call'.sdk[i].id = call'.id
       /\ \A o \in Collections \ {c} : db'[o] = db[o]
       /\ \A d \in db[c] \cup db'[c] :
            d.id # call'.id => d \in db[c] \cap db'[c]]_vars

\* a transaction has just been added while an account document exists
C5_Witness ==
  /\ call.op = "add"
  /\ call.coll = "transactions"
  /\ ~call.threw
  /\ Len(call.sdk) = 1
  /\ db["accounts"] # {}

EnteredBalances == {i.balance : i \in AccountInputs}

\* C7: no transaction write changes the accounts collection; an account's
\* balance changes only in updateAccount on that account, and an account
\* appears only in addAccount, each time with a balance that was entered.
C7_BalancesNeverRecomputed ==
  [][/\ OwnWrite("transactions") => db'["accounts"] = db["accounts"]
     /\ \A a \in db["accounts"], b \in db'["accounts"] :
          (a.id = b.id /\ a.balance # b.balance) =>
             /\ Wrote("update", "accounts")
             /\ call'.id = a.id
             /\ b.balance \in EnteredBalances
     /\ \A b \in db'["accounts"] :
          (\A a \in db["accounts"] : a.id # b.id) =>
             /\ Wrote("add", "accounts")
             /\ b.balance \in EnteredBalances]_vars

\* an expense larger than the balance of the account it refers to has just
\* been recorded, and the balance stands as entered
C7_Witness ==
  /\ call.op = "add"
  /\ call.coll = "transactions"
  /\ ~call.threw
  /\ \E t \in db["transactions"], a \in db["accounts"] :
       /\ t.id = call.id
       /\ t.accountId = a.id
       /\ t.type = "expense"
       /\ t.amount > a.balance

\* the failure cases of a model call, read off its inputs: the file could
\* not be read, the SDK threw, there was no response, the text was empty, it
\* held no bracketed fragment, or the fragment is not JSON
NoFragment(text, open, close) ==
  ~\E i, j \in 1 .. Len(text) : i < j /\ text[i] = open /\ text[j] = close

CallFails(read, reply, open, close) ==
  \/ read # "loaded"
  \/ reply.kind \in {"throws", "noResponse"}
  \/ Blank(reply.text)
  \/ NoFragment(reply.text, open, close)
  \/ ~IsJson(NoSpace(Match(reply.text, open, close)))

\* C1: a settled extractReceiptData call has resolved, never rejected, and in
\* every failure case its record is the placeholder: vendor "Sample Store",
\* category "Shopping".
C1_ExtractNeverRejects ==
  rx.pc = "done" =>
    /\ rx.result.settled = "resolved"
    /\ CallFails(rx.read, rx.reply, "{", "}") =>
         /\ rx.result.value.vendor = Str("Sample Store")
         /\ rx.result.value.category = Str("Shopping")

\* the reply held a {...} fragment that is not JSON and the call resolved
\* with the placeholder
C1_Witness ==
  /\ rx.pc = "done"
  /\ rx.read = "loaded"
  /\ rx.reply.kind = "text"
  /\ ~NoFragment(rx.reply.text, "{", "}")
  /\ ~IsJson(NoSpace(Match(rx.reply.text, "{", "}")))
  /\ rx.result.settled = "resolved"
  /\ rx.result.value.vendor = Str("Sample Store")

\* C2: a settled generateFinancialInsights call has resolved having called
\* the model once at most, and in every failure case its value is the
\* rule-based list computed from the transactions it was given.
C2_InsightsNeverReject ==
  gi.pc = "done" =>
    /\ gi.result.settled = "resolved"
    /\ gi.result.calls <= 1
    /\ CallFails("loaded", gi.reply, "[", "]") =>
         gi.result.value = generateFallbackInsights(gi.transactions)

\* the reply held a [...] fragment that is not JSON, transactions had been
\* passed in, and the call resolved with their rule-based list
C2_Witness ==
  /\ gi.pc = "done"
  /\ gi.transactions # <<>>
  /\ gi.reply.kind = "text"
  /\ ~NoFragment(gi.reply.text, "[", "]")
  /\ ~IsJson(NoSpace(Match(gi.reply.text, "[", "]")))
  /\ gi.result.settled = "resolved"
  /\ \E i \in 1 .. Len(gi.result.value) :
       gi.result.value[i].title = Str("Top Spending Category")

\* C9 as stated: any two placeholder records returned are the same record.
C9_SamePlaceholder ==
  \A i, j \in 1 .. Len(fallbacks) :
    /\ fallbacks[i].vendor = fallbacks[j].vendor
    /\ fallbacks[i].amount = fallbacks[j].amount
    /\ fallbacks[i].date = fallbacks[j].date
    /\ fallbacks[i].category = fallbacks[j].category

\* C9 amended: any two placeholder records agree on vendor and category; the
\* amount is an integer from 100 to 1099 and the date is a day up to today.
C9_SameVendorAndCategory ==
  \A i, j \in 1 .. Len(fallbacks) :
    /\ fallbacks[i].vendor = fallbacks[j].vendor
    /\ fallbacks[i].category = fallbacks[j].category
    /\ fallbacks[i].amount.t = "number"
    /\ fallbacks[i].amount.n \in 100 .. 1099
    /\ fallbacks[i].date.n \in 1 .. now

\* two failing calls on different days returned different amounts and dates
C9_Witness ==
  /\ Len(fallbacks) = 2
  /\ fallbacks[1].amount # fallbacks[2].amount
  /\ fallbacks[1].date # fallbacks[2].date
  /\ fallbacks[1].vendor = fallbacks[2].vendor

\* C6: after a confirmed account deletion that succeeded, no transaction
\* that refers to the deleted account remains in the store.
C6_AccountDeletionCascades ==
  (call.by = "settings" /\ call.op = "delete" /\ ~call.failed) =>
    \A t \in db["transactions"] : t.accountId # call.id

\* C8: a write whose SDK call failed shows exactly one toast, an error
\* toast, no success toast, and re-throws; the form that made the call
\* is left as it was: open, with its fields and the record being edited.
C8_FailedWriteKeepsForm ==
  [][call'.failed =>
       /\ call'.toasts = <<Toast("error", call'.op, call'.coll)>>
       /\ \A i \in 1 .. Len(shown') : shown'[i].kind # "success"
       /\ call'.threw
       /\ page' = page
       /\ form' = form
       /\ call'.op \in {"add", "update"} => form.show]_vars

\* an update made from an open form failed, and the form is still open on
\* the record being edited with the fields that were submitted
C8_Witness ==
  /\ call.failed
  /\ call.op = "update"
  /\ call.by \in CrudPages
  /\ form.show
  /\ form.editing # NoRecord
  /\ form.editing.id = call.id
  /\ Valid(call.coll, form.fields)

\* C10: on the upload page the store changes, and the provider is called,
\* only in a submit of a form that passes validation: the call is one
\* addTransaction whose data is the fields as they stood, with type
\* "expense"; selecting a file and extracting write nothing.
C10_ExtractionNeverSaves ==
  [][(db' # db \/ call'.op # "none") =>
       /\ call'.by = "upload"
       /\ call'.op = "add"
       /\ call'.coll = "transactions"
       /\ Len(call'.sdk) = 1
       /\ UploadValid(upload.fields)
       /\ upload'.uploading = upload.uploading
       /\ db'["accounts"] = db["accounts"]
       /\ db'["investments"] = db["investments"]
       /\ db["transactions"] \subseteq db'["transactions"]
       /\ db'["transactions"] \ db["transactions"] \subseteq
            {NewDoc(call'.id, user, UploadData(upload.fields))}
       /\ \A t \in db'["transactions"] \ db["transactions"] :
            t.type = "expense"]_vars

\* a receipt was extracted, the user changed the description, and the
\* submit saved an expense with the extracted amount and the typed text
C10_Witness ==
  /\ call.by = "upload"
  /\ call.op = "add"
  /\ ~call.failed
  /\ upload.fields = UploadBlank
  /\ \E t \in db["transactions"] :
       /\ t.id = call.id
       /\ t.type = "expense"
       /\ t.description = "Lunch"
       /\ t.amount >= 100

\* the calendar month of an instant, counted from 0, and the sum of the
\* amounts of the transactions of one type dated in a month of a year
MonthOf(t) == (t % YearLen) \div MonthLen
RECURSIVE MonthSum(_, _, _, _)
MonthSum(txs, type, year, m) ==
  IF txs = <<>> THEN 0
  ELSE MonthSum(Tail(txs), type, year, m)
         + (IF /\ Head(txs).type = type
               /\ Head(txs).date \div YearLen = year
               /\ MonthOf(Head(txs).date) = m
            THEN Head(txs).amount ELSE 0)

\* C11: the monthly trend has one entry per calendar month of the selected
\* year, in month order; an entry's income and expenses are the sums of the
\* amounts of the income and expense transactions dated in that month of
\* that year, and its net is their difference.
C11_MonthlyTrend ==
  (report.mounted /\ report.trend # <<>>) =>
    /\ Len(report.trend) = 12
    /\ \A k \in 1 .. 12 :
         LET year == report.selectedPeriod \div YearLen IN
         /\ report.trend[k].month = MonthNames[k]
         /\ report.trend[k].income = MonthSum(transactions, "income", year, k - 1)
         /\ report.trend[k].expenses = MonthSum(transactions, "expense", year, k - 1)
         /\ report.trend[k].net = report.trend[k].income - report.trend[k].expenses

\* the loaded transactions span two months of the selected year, one of them
\* dated at a month's last instant, and lie outside the year too; the trend
\* shows January and February and nothing of the other years
C11_Witness ==
  /\ report.mounted
  /\ report.trend # <<>>
  /\ report.selectedPeriod \div YearLen = 1
  /\ Len(transactions) = 5
  /\ report.trend[1].income = 10
  /\ report.trend[1].expenses = 4
  /\ report.trend[2].net = -3
  /\ \A k \in 3 .. 12 : report.trend[k].income = 0 /\ report.trend[k].expenses = 0

\* the amount a transaction form holds, as onSubmit converts it
SubmittedAmount ==
  IF page = "upload" THEN Number(upload.fields.amount)
  ELSE Number(form.fields.amount)

\* C12: a submit of the Transactions form or of the Upload Bill form calls
\* addTransaction or updateTransaction only when the form's amount is above
\* zero, and the store then holds no transaction whose amount is zero or
\* negative.
C12_AmountPositive ==
  [][(call'.coll = "transactions" /\ call'.op \in {"add", "update"}) =>
       /\ SubmittedAmount > 0
       /\ \A t \in db'["transactions"] : t.amount > 0]_vars

\* a form holding a zero or negative amount was submitted and the provider
\* was not called
C12_Witness ==
  /\ call.by \in {"transactions", "upload"}
  /\ call.op = "none"
  /\ call.sdk = <<>>
  /\ IF page = "upload"
     THEN upload.fields.amount \in {Num(0), Num(-1)}
     ELSE form.show /\ form.fields.amount \in {Num(0), Num(-2)}

\* an instant lies in the selected calendar month, or calendar year
InPeriod(t) ==
  /\ t \div YearLen = report.selectedPeriod \div YearLen
  /\ report.reportType = "monthly" => MonthOf(t) = MonthOf(report.selectedPeriod)

\* the positions of the loaded transactions dated in the period, in order
Exported == SelectSeq([i \in 1 .. Len(transactions) |-> i],
                      LAMBDA i : InPeriod(transactions[i].date))

\* C13: downloadCSV exports the header row and then one row for each loaded
\* transaction dated in the selected period, in the loaded order, with its
\* date, type, amount, category, description and the name of its account,
\* "Unknown" when no loaded account has that id; when nothing is loaded or
\* nothing falls in the period it shows one error toast and downloads
\* nothing.
C13_CsvExport ==
  (report.mounted /\ report.download.ran) =>
    IF Exported = <<>>
    THEN /\ report.download.rows = <<>>
         /\ Len(shown) = 1
         /\ shown[1].kind = "error"
    ELSE /\ Len(report.download.rows) = Len(Exported) + 1
         /\ report.download.rows[1] = CsvHeader
         /\ \A k \in 1 .. Len(Exported) :
              LET t == transactions[Exported[k]]
                  row == report.download.rows[k + 1] IN
              /\ row[1] = formatDate(t.date)
              /\ row[2] = t.type
              /\ row[3] = t.amount
              /\ row[4] = t.category
              /\ row[5] = t.description
              /\ row[6] = IF \E i \in 1 .. Len(accounts) : accounts[i].id = t.accountId
                          THEN (CHOOSE a \in Range(accounts) : a.id = t.accountId).name
                          ELSE "Unknown"
         /\ shown = <<PageToast("success", "CSV downloaded successfully!")>>

\* a year's export left out loaded transactions of other years and named
\* one account and not the other
C13_Witness ==
  /\ report.mounted
  /\ report.download.ran
  /\ report.reportType = "yearly"
  /\ Len(transactions) = 5
  /\ Len(report.download.rows) = 4
  /\ \E k \in 2 .. 4 : report.download.rows[k][6] = "Unknown"
  /\ \E k \in 2 .. 4 : report.download.rows[k][6] = "Wallet"

\* the insights of a list that carry one of the three savings-rate titles
SavingsTitles == {"Excellent Savings Rate", "Low Savings Rate",
                  "Spending More Than Earning"}
RateInsights(list) ==
  SelectSeq(list, LAMBDA x : x.title.s \in SavingsTitles)

RECURSIVE AmountsOf(_, _)
AmountsOf(txs, type) ==
  IF txs = <<>> THEN 0
  ELSE AmountsOf(Tail(txs), type)
         + (IF Head(txs).type = type THEN Head(txs).amount ELSE 0)

\* C14: the fallback list of a non-empty transaction list carries at most
\* one savings-rate insight: the positive "Excellent Savings Rate" when the
\* rate is above 20, the warning "Low Savings Rate" when it is from 0 up to
\* but not 10, the warning "Spending More Than Earning" when it is below 0,
\* none from 10 to 20; the rate is 0 when there is no income.
C14_SavingsRateRules ==
  (gi.pc = "done" /\ gi.transactions # <<>>
     /\ CallFails("loaded", gi.reply, "[", "]")) =>
    LET inc == AmountsOf(gi.transactions, "income")
        exp == AmountsOf(gi.transactions, "expense")
        \* the rate times inc
        r100 == IF inc > 0 THEN (inc - exp) * 100 ELSE 0
        unit == IF inc > 0 THEN inc ELSE 1
        found == RateInsights(gi.result.value) IN
    /\ Len(found) <= 1
    /\ r100 > 20 * unit =>
         /\ Len(found) = 1
         /\ found[1].title = Str("Excellent Savings Rate")
         /\ found[1].type = Str("positive")
    /\ (r100 >= 0 /\ r100 < 10 * unit) =>
         /\ Len(found) = 1
         /\ found[1].title = Str("Low Savings Rate")
         /\ found[1].type = Str("warning")
    /\ r100 < 0 =>
         /\ Len(found) = 1
         /\ found[1].title = Str("Spending More Than Earning")
         /\ found[1].type = Str("warning")
    /\ (r100 >= 10 * unit /\ r100 <= 20 * unit) => found = <<>>

\* the model call failed for a list whose expenses exceed its income, and
\* the fallback warns of spending more than earning
C14_Witness ==
  /\ gi.pc = "done"
  /\ CallFails("loaded", gi.reply, "[", "]")
  /\ AmountsOf(gi.transactions, "income") > 0
  /\ AmountsOf(gi.transactions, "expense") > AmountsOf(gi.transactions, "income")
  /\ \E i \in 1 .. Len(gi.result.value) :
       gi.result.value[i].title = Str("Spending More Than Earning")

\* the reply text holds an object that JSON.parse accepts
ParseableObject(read, reply) ==
  /\ read = "loaded"
  /\ reply.kind = "text"
  /\ Match(reply.text, "{", "}") # <<>>
  /\ IsJson(NoSpace(Match(reply.text, "{", "}")))

\* a member the || default leaves alone: present and not '' or 0
Given(j) == j \notin {Undefined, Null, Str(""), Num(0)}

\* C15: when the reply holds a parseable JSON object, the record returned
\* is the object's members under type checks and defaults only: amount is
\* the object's amount when that is a number and null otherwise (a string
\* of digits is not converted), category is the object's category or
\* "Others", items is the object's array or an empty list, vendor and date
\* are the object's values or null.
C15_ReceiptNormalised ==
  (rx.pc = "done" /\ ParseableObject(rx.read, rx.reply)) =>
    LET data == ParseObject(Match(rx.reply.text, "{", "}"), rx.payload)
        out == rx.result.value IN
    /\ rx.result.settled = "resolved"
    /\ out.amount = (IF data.amount.t = "number" THEN data.amount ELSE Null)
    /\ out.category = (IF Given(data.category) THEN data.category
                       ELSE Str("Others"))
    /\ out.items = (IF data.items.t = "array" THEN data.items ELSE Arr(<<>>))
    /\ out.vendor = (IF Given(data.vendor) THEN data.vendor ELSE Null)
    /\ out.date = (IF Given(data.date) THEN data.date ELSE Null)

\* a reply whose object has the amount as a string and no category, items,
\* vendor or date has been normalised
C15_Witness ==
  /\ rx.pc = "done"
  /\ ParseableObject(rx.read, rx.reply)
  /\ "v" \in Range(rx.reply.text)
  /\ rx.payload.amount = Str("12.50")
  /\ rx.result.value =
       [vendor |-> Null, amount |-> Null, date |-> Null,
        category |-> Str("Others"), items |-> Arr(<<>>)]

\* quantity * currentPrice - quantity * buyPrice of the holdings in turn
GainOf(inv) == inv.quantity * inv.currentPrice - inv.quantity * inv.buyPrice

RECURSIVE SumField(_, _)
SumField(list, f) ==
  IF list = <<>> THEN 0 ELSE list[1][f] + SumField(Tail(list), f)

\* C16: each holding's gain/loss is quantity x currentPrice - quantity x
\* buyPrice; the portfolio's total gain/loss is the sum of the holdings'
\* gain/loss, on the Investments page and on the Dashboard; the per-type
\* breakdown's value, cost, gainLoss and count sum to the portfolio totals
\* and the number of holdings; a gain/loss percentage is 0 when its cost
\* is 0.
C16_GainLoss ==
  /\ (portfolio.rendered /\ portfolio.view = "investments") =>
       LET data == portfolio.data
           each == data.investmentData IN
       /\ Len(each) = Len(investments)
       /\ \A i \in DOMAIN each :
            /\ each[i].id = investments[i].id
            /\ each[i].gainLoss = GainOf(investments[i])
            /\ each[i].totalCost = 0 => each[i].gainLossPercentage = Zero
       /\ data.totalGainLoss = SumField(each, "gainLoss")
       /\ SumField(data.typeData, "value") = data.totalInvestmentValue
       /\ SumField(data.typeData, "cost") = data.totalInvestmentCost
       /\ SumField(data.typeData, "gainLoss") = data.totalGainLoss
       /\ SumField(data.typeData, "count") = Len(investments)
       /\ data.totalInvestmentValue = SumField(each, "currentValue")
       /\ data.totalInvestmentCost = SumField(each, "totalCost")
       /\ data.totalInvestmentCost = 0 => data.totalGainLossPercentage = Zero
  /\ (portfolio.rendered /\ portfolio.view = "dashboard") =>
       portfolio.investmentGainLoss =
         SumField([i \in DOMAIN investments |->
                     [gainLoss |-> GainOf(investments[i])]], "gainLoss")

\* the Investments page shows two holdings of one type, one gaining and
\* one losing, beside a holding of another type whose cost is 0
C16_Witness ==
  /\ portfolio.rendered
  /\ portfolio.view = "investments"
  /\ \E i, j, k \in DOMAIN investments :
       /\ i # j
       /\ investments[i].type = investments[j].type
       /\ GainOf(investments[i]) > 0
       /\ GainOf(investments[j]) < 0
       /\ investments[k].quantity * investments[k].buyPrice = 0
       /\ portfolio.data.investmentData[k].gainLossPercentage = Zero
  /\ Len(portfolio.data.typeData) < Len(investments)

\* C17: when the receipt cannot be scanned (the model call fails or its
\* reply holds nothing usable), handleExtractData sets extractionError,
\* shows an error toast and no success toast, and neither sets
\* extractedData nor fills in a form field.
C17_FailedScanReported ==
  [][(upload.uploading /\ ~upload'.uploading /\ upload'.scan = "failed") =>
       /\ upload'.extractionError # ""
       /\ \E i \in DOMAIN shown' : shown'[i].kind = "error"
       /\ \A i \in DOMAIN shown' : shown'[i].kind # "success"
       /\ upload'.extractedData = upload.extractedData
       /\ upload'.fields = upload.fields]_vars

\* what the page does instead: the placeholder record of the failed call
\* is taken for the receipt's data
C17_PlaceholderAccepted ==
  /\ page = "upload"
  /\ upload.scan = "failed"
  /\ upload.extractionError = ""
  /\ upload.extractedData.merchantName = Str("Sample Store")
  /\ upload.fields.description = Str("Sample Store")
  /\ upload.fields.category = Str("Shopping")
  /\ \E i \in DOMAIN shown : shown[i].kind = "success"

\* the categories of the expenses among txs and the sum of one category
ExpenseCategories(txs) ==
  {txs[i].category : i \in {j \in DOMAIN txs : txs[j].type = "expense"}}
ExpensesIn(txs, c) ==
  SumOf(SelectSeq(txs, LAMBDA t : t.category = c), "expense")
RECURSIVE SumValues(_)
SumValues(list) ==
  IF list = <<>> THEN 0 ELSE list[1].value + SumValues(Tail(list))

\* C18: reportData holds, for the selected month or year with inclusive
\* bounds, totalIncome and totalExpenses as the sums of the period's income
\* and expense amounts, netSavings as their difference, transactionCount as
\* the number of transactions in the period, and per-category values that
\* cover exactly the period's expenses and sum to totalExpenses; with no
\* accounts or no transactions every total is 0 and every breakdown empty.
C18_ReportAggregation ==
  (report.mounted /\ report.data.rendered) =>
    /\ ~report.data.threw
    /\ LET v == report.data.value
           period == [k \in 1 .. Len(Exported) |-> transactions[Exported[k]]] IN
       IF accounts = <<>> \/ transactions = <<>>
       THEN /\ v.totalIncome = 0
            /\ v.totalExpenses = 0
            /\ v.netSavings = 0
            /\ v.transactionCount = 0
            /\ v.categoryData = <<>>
            /\ v.accountBreakdown = <<>>
            /\ v.trendData = <<>>
       ELSE /\ v.totalIncome = SumOf(period, "income")
            /\ v.totalExpenses = SumOf(period, "expense")
            /\ v.netSavings = v.totalIncome - v.totalExpenses
            /\ v.transactionCount = Len(period)
            /\ {v.categoryData[i].name : i \in DOMAIN v.categoryData}
                 = ExpenseCategories(period)
            /\ \A i \in DOMAIN v.categoryData :
                 v.categoryData[i].value
                   = ExpensesIn(period, v.categoryData[i].name)
            /\ SumValues(v.categoryData) = v.totalExpenses

\* what the page does instead: with an account and a transaction loaded
\* the render throws and there is no report
C18_RenderThrows ==
  /\ report.mounted
  /\ accounts # <<>>
  /\ transactions # <<>>
  /\ report.data.rendered
  /\ report.data.threw

\* C19: on the Transactions, Settings and Investments pages a valid submit
\* calls update with the id of the record being edited, and never add,
\* while a record is being edited, and calls add, never update, while none
\* is; after a submit that did not fail, and after Cancel, no record is
\* being edited and the form is closed.
C19_FormMode ==
  [][/\ (call'.by \in CrudPages /\ call'.op \in {"add", "update"}) =>
          /\ form.show
          /\ Valid(call'.coll, form.fields)
          /\ call'.coll = PageColl(page)
          /\ IF form.editing # NoRecord
             THEN call'.op = "update" /\ call'.id = form.editing.id
             ELSE call'.op = "add"
          /\ ~call'.threw => (~form'.show /\ form'.editing = NoRecord)
     /\ (page' = page /\ form.show /\ ~form'.show) =>
          form'.editing = NoRecord]_vars

\* a record was opened for editing and the submit updated it: the store
\* holds the typed values under the same id, nothing was added, and the
\* form is closed with no record being edited
C19_Witness ==
  /\ call.by \in CrudPages
  /\ call.op = "update"
  /\ ~call.threw
  /\ ~call.failed
  /\ ~form.show
  /\ form.editing = NoRecord
  /\ \A c \in Collections : Cardinality(db[c]) = Cardinality(Stored[c])
  /\ \E d \in db[call.coll] : d.id = call.id /\ d \notin Stored[call.coll]

\* C20: with no user signed in, addAccount, addTransaction and
\* addInvestment write nothing to the database, show no toast and return
\* without an error.
C20_SignedOutAddIsSilent ==
  [][(call'.op = "add" /\ user = NoUser) =>
       /\ db' = db
       /\ pending' = pending
       /\ usedIds' = usedIds
       /\ call'.sdk = <<>>
       /\ call'.toasts = <<>>
       /\ ~call'.threw
       /\ accounts' = accounts
       /\ transactions' = transactions
       /\ investments' = investments]_vars

\* after the user of a stored document signed out, an add was called and
\* returned without a write, a toast or an error
C20_Witness ==
  /\ user = NoUser
  /\ call.op = "add"
  /\ call.sdk = <<>>
  /\ call.toasts = <<>>
  /\ ~call.threw
  /\ \E c \in Collections : db[c] # {}

\* C21: once the effect has run for a null user, accounts, transactions and
\* investments are empty, loading is false and no listener is subscribed
\* (no snapshot is waiting for a callback); this stays so until the effect
\* runs for a user again, so no snapshot of the previous user is applied
\* after the sign-out.
C21_SignedOutListsEmpty ==
  subUser = NoUser =>
    /\ accounts = <<>>
    /\ transactions = <<>>
    /\ investments = <<>>
    /\ ~loading
    /\ \A c \in Collections : pending[c] = <<>>

\* a user who had stored an account and a transaction has signed out, the
\* effect has run, and the lists are empty while the documents remain
C21_Witness ==
  /\ user = NoUser
  /\ subUser = NoUser
  /\ call.op = "none"
  /\ db["accounts"] # {}
  /\ db["transactions"] # {}
  /\ accounts = <<>>
  /\ transactions = <<>>

\* C22: while a user is signed in and the first transactions snapshot for
\* that user has not been delivered, loading is true, also for a user who
\* signs in after a time with no user.  Stated for the steps after which
\* the snapshot cannot have been delivered yet: the user has just been
\* handed to the provider, or the effect has just subscribed for the user.
C22_LoadingUntilFirstSnapshot ==
  [][(user' \in Users /\ (subUser' # user' \/ subUser' # subUser)) =>
       loading']_vars

\* what the provider does instead: the effect has subscribed for a user,
\* the first transactions snapshot waits for its callback, and loading is
\* false with an empty list
C22_EmptyNotLoading ==
  /\ user \in Users
  /\ subUser = user
  /\ pending["transactions"] = <<Query(db, "transactions", user)>>
  /\ db["transactions"] # {}
  /\ transactions = <<>>
  /\ ~loading

\* C23: on the Analysis page at most one generateFinancialInsights request
\* is in flight at any time, and the insights shown are never those of a
\* request older than one that has already settled.
C23_OneRequestInFlight ==
  analysis.mounted =>
    /\ Len(analysis.inFlight) <= 1
    /\ analysis.insightsOf = analysis.settled

\* what the page does instead: the effect started a second request while
\* the first was out, the second settled first, and the insights shown are
\* those of the first, computed from fewer transactions than are loaded
C23_StaleInsightsShown ==
  /\ analysis.mounted
  /\ analysis.insightsOf < analysis.settled
  /\ analysis.inFlight = <<>>
  /\ ~analysis.loadingInsights
  /\ analysis.insights # <<>>

\* C24: on the Upload Bill page the extracted data shown and pre-filled
\* belongs to the file now selected: the result of an extraction that was
\* in flight when the file was removed or replaced is not shown, so
\* extractedData is never set while no file is selected.
C24_ExtractedDataOfSelectedFile ==
  page = "upload" =>
    (upload.selectedFile = NoFile => upload.extractedData = NoData)

\* what the page does instead: the file was removed while its extraction
\* was in flight, and the extraction's record is shown and pre-filled with
\* no file selected
C24_DataWithoutFile ==
  /\ page = "upload"
  /\ upload.selectedFile = NoFile
  /\ ~upload.uploading
  /\ upload.scan = "read"
  /\ upload.extractedData # NoData
  /\ upload.fields.description = upload.extractedData.description
  /\ \E i \in DOMAIN shown : shown[i].kind = "success"

FallbackTitles ==
  SavingsTitles \cup {"Top Spending Category", "More Data Needed"}

\* C25: the fallback list is never empty: for no transactions it is exactly
\* the one 'info' insight "Getting Started"; for a non-empty list of
\* transactions with amounts of 0 or more it holds at least one of the
\* savings-rate, top-category and more-data-needed insights.
C25_FallbackNeverEmpty ==
  (gi.pc = "done" /\ CallFails("loaded", gi.reply, "[", "]")) =>
    LET out == gi.result.value IN
    /\ out # <<>>
    /\ gi.transactions = <<>> =>
         /\ Len(out) = 1
         /\ out[1].type = Str("info")
         /\ out[1].title = Str("Getting Started")
    /\ gi.transactions # <<>> =>
         /\ \E i \in DOMAIN out : out[i].title.s \in FallbackTitles
         /\ \A i \in DOMAIN out : out[i].title # Str("Getting Started")

\* five transactions whose savings rate lies from 10 to 20: neither the
\* savings-rate nor the more-data-needed insight is emitted and the list
\* holds the top category alone
C25_Witness ==
  /\ gi.pc = "done"
  /\ Len(gi.transactions) >= 5
  /\ RateInsights(gi.result.value) = <<>>
  /\ Len(gi.result.value) = 1
  /\ gi.result.value[1].title = Str("Top Spending Category")

====
